---- MODULE Spec2Model ----
(***************************************************************************)
(* Model of the OpenHornet flight-stick controller                         *)
(* (embedded/OH3_Center_Tub/3A3A1-STICK_CONTROLLER/3A3A1-STICK_CONTROLLER.ino). *)
(*                                                                         *)
(* Conventions                                                             *)
(*  - A uint32_t is a pair <<hi, lo>> of 16-bit halves (value hi*2^16+lo), *)
(*    so that the full 32-bit width is kept.                               *)
(*  - A float that holds degrees is the integer  degrees * 2^21  (Q21).    *)
(*    Every degrees value the program computes is a multiple of 2^-21, and *)
(*    RoundF32 applies the binary32 rounding (24 significant bits, ties to *)
(*    even) after each arithmetic operation.                               *)
(*  - Where the axis mapping scales such a value, a float is the pair     *)
(*    <<m, e>> (value m * 2^e, 24-bit m), with the binary32 rounding of   *)
(*    each product, quotient and difference.                               *)
(***************************************************************************)
EXTENDS Integers, Sequences, FiniteSets, TLC

VARIABLES
    pc,                         \* "setup" | "boot" | "loop" (| harness positions)
    bootI,                      \* setup(): the bootstrap loop's i
    eeprom,                     \* EEPROM bytes 0..11
    rollCenter, pitchCenter,    \* uint32_t
    centersValid,
    recenterArmed, recenterStartMs, recenterDoneThisHold, recenterSafeTriedThisHold,
    rollDegPrev, pitchDegPrev,  \* loop(): static float, Q21
    lastGrip24, lastX, lastY, lastHat,  \* output cache
    nowMs,                      \* the value millis() returned last (uint32_t)
    roll, pitch,                \* the MT6835_Result read last
    event,                      \* the debug message (branch) of the last step
    args                        \* harness: the inputs of the function under check

vars == <<pc, bootI, eeprom, rollCenter, pitchCenter, centersValid,
          recenterArmed, recenterStartMs, recenterDoneThisHold,
          recenterSafeTriedThisHold, rollDegPrev, pitchDegPrev,
          lastGrip24, lastX, lastY, lastHat, nowMs, roll, pitch, event, args>>

-----------------------------------------------------------------------------
(* Machine arithmetic *)

Pow2(n) == 2 ^ n

\* bitwise XOR of two n-bit naturals
RECURSIVE BitXor(_, _, _)
BitXor(a, b, n) ==
    IF n = 0 THEN 0
    ELSE (((a % 2) + (b % 2)) % 2) + 2 * BitXor(a \div 2, b \div 2, n - 1)

\* uint32_t as <<hi, lo>>
U32(n) == <<n \div 65536, n % 65536>>

U32Add(a, n) ==
    LET lo == a[2] + (n % 65536)
        hi == a[1] + (n \div 65536) + (lo \div 65536)
    IN  <<hi % 65536, lo % 65536>>

\* a - b modulo 2^32
U32Sub(a, b) ==
    LET lo == a[2] - b[2]
        borrow == IF lo < 0 THEN 1 ELSE 0
        hi == a[1] - b[1] - borrow
    IN  <<(hi + 65536) % 65536, (lo + 65536) % 65536>>

\* a >= n for a constant n < 2^31
U32Ge(a, n) ==
    \/ a[1] > n \div 65536
    \/ a[1] = n \div 65536 /\ a[2] >= n % 65536

\* v & 0x1FFFFF, as a natural
U32Low21(v) == (v[1] % 32) * 65536 + v[2]

\* binary32 rounding of a natural below 2^31: 24 significant bits, ties to even
RECURSIVE F32Ulp(_, _)
F32Ulp(n, q) == IF n < 16777216 * q THEN q ELSE F32Ulp(n, 2 * q)

RoundF32Nat(n) ==
    LET q    == F32Ulp(n, 1)
        lo   == n % q
        base == n - lo
    IN  IF 2 * lo > q \/ (2 * lo = q /\ (base \div q) % 2 = 1)
        THEN base + q ELSE base

RoundF32(n) == IF n < 0 THEN -RoundF32Nat(-n) ELSE RoundF32Nat(n)

Abs(x) == IF x < 0 THEN -x ELSE x

\* A binary32 value of any magnitude is a pair <<m, e>> standing for m * 2^e,
\* with 2^23 <= |m| < 2^24, or <<0, 0>> for zero.
F32Zero == <<0, 0>>

RECURSIVE Log2(_)
Log2(q) == IF q = 1 THEN 0 ELSE 1 + Log2(q \div 2)

RECURSIVE F32Up(_, _)
F32Up(n, e) == IF n >= 8388608 THEN <<n, e>> ELSE F32Up(2 * n, e - 1)

\* the binary32 nearest to n * 2^e, for a natural 0 < n < 2^31
F32MakeNat(n, e) ==
    IF n >= 16777216
    THEN LET q == F32Ulp(n, 1)
             r == RoundF32Nat(n) \div q
         IN  IF r = 16777216 THEN <<8388608, e + Log2(q) + 1>> ELSE <<r, e + Log2(q)>>
    ELSE F32Up(n, e)

\* the binary32 nearest to m * 2^e, for an integer |m| < 2^31
F32Make(m, e) ==
    IF m = 0 THEN F32Zero
    ELSE LET f == F32MakeNat(Abs(m), e)
         IN  <<IF m < 0 THEN -f[1] ELSE f[1], f[2]>>

F32Neg(x) == <<-x[1], x[2]>>
F32Abs(x) == <<Abs(x[1]), x[2]>>

\* x < y for x, y >= 0
F32PosLt(x, y) ==
    IF x[1] = 0 THEN y[1] > 0
    ELSE IF y[1] = 0 THEN FALSE
    ELSE x[2] < y[2] \/ (x[2] = y[2] /\ x[1] < y[1])

\* x < y
F32Lt(x, y) ==
    IF x[1] < 0 /\ y[1] >= 0 THEN TRUE
    ELSE IF x[1] >= 0 /\ y[1] < 0 THEN FALSE
    ELSE IF x[1] >= 0 THEN F32PosLt(x, y)
    ELSE F32PosLt(F32Neg(y), F32Neg(x))

\* x - y rounded to binary32, for x >= y >= 0.  Operands up to 6 binades
\* apart are subtracted exactly; beyond that y is reduced to three guard
\* bits and a sticky bit, which rounds the same way.
F32Sub(x, y) ==
    IF y[1] = 0 THEN x
    ELSE LET d == x[2] - y[2]
         IN  IF d <= 6
             THEN F32Make(x[1] * Pow2(d) - y[1], y[2])
             ELSE LET k  == d - 3
                      yq == IF k >= 24 THEN 0 ELSE y[1] \div Pow2(k)
                      st == IF k >= 24 \/ y[1] % Pow2(k) # 0 THEN 1 ELSE 0
                  IN  F32Make(2 * (x[1] * 8 - yq) - st, x[2] - 4)

\* x * y rounded to binary32: the 48-bit product of the mantissas is formed
\* in 12-bit limbs and reduced to its top 27 bits and a sticky bit
F32Mul(x, y) ==
    IF x[1] = 0 \/ y[1] = 0 THEN F32Zero
    ELSE LET a   == Abs(x[1])
             b   == Abs(y[1])
             a1  == a \div 4096
             a0  == a % 4096
             b1  == b \div 4096
             b0  == b % 4096
             mid == a1 * b0 + a0 * b1
             los == a0 * b0 + (mid % 4096) * 4096
             hi  == a1 * b1 + mid \div 4096 + los \div 16777216
             lo  == los % 16777216
             top == hi * 4 + lo \div 4194304
             st  == IF lo % 4194304 # 0 THEN 1 ELSE 0
             f   == F32MakeNat(2 * top + st, x[2] + y[2] + 21)
         IN  <<IF (x[1] > 0) = (y[1] > 0) THEN f[1] ELSE -f[1], f[2]>>

\* long division: <<quotient, remainder>> of (q * b + r) * 2^n by b
RECURSIVE F32DivSteps(_, _, _, _)
F32DivSteps(q, r, b, n) ==
    IF n = 0 THEN <<q, r>>
    ELSE IF 2 * r >= b THEN F32DivSteps(2 * q + 1, 2 * r - b, b, n - 1)
    ELSE F32DivSteps(2 * q, 2 * r, b, n - 1)

\* x / y rounded to binary32, for y # 0: 26 quotient bits and a sticky bit
F32Div(x, y) ==
    IF x[1] = 0 THEN F32Zero
    ELSE LET a  == Abs(x[1])
             b  == Abs(y[1])
             qr == F32DivSteps(a \div b, a % b, b, 25)
             st == IF qr[2] # 0 THEN 1 ELSE 0
             f  == F32MakeNat(2 * qr[1] + st, x[2] - y[2] - 26)
         IN  <<IF (x[1] > 0) = (y[1] > 0) THEN f[1] ELSE -f[1], f[2]>>

\* (int32_t)x for |x| < 2^31: truncation toward zero
F32ToInt32(x) ==
    IF x[1] = 0 THEN 0
    ELSE LET n == Abs(x[1])
             v == IF x[2] >= 0 THEN n * Pow2(x[2])
                  ELSE IF -x[2] >= 24 THEN 0
                  ELSE n \div Pow2(-x[2])
         IN  IF x[1] < 0 THEN -v ELSE v

\* a degrees value held in Q21, as a binary32 pair
F32FromDeg(d) == F32Make(d, -21)

-----------------------------------------------------------------------------
(* Program constants *)

MT_ANGLE_FULL_SCALE == 2097152
ROLL_TOTAL_DEG == F32Make(31, 0)
ROLL_HALF_DEG == F32Mul(ROLL_TOTAL_DEG, F32Make(1, -1))
ROLL_SENSOR_TO_MECH_SCALE == F32Div(F32Make(31, -1), F32Make(110, 0))
PITCH_TOTAL_DEG == F32Make(24, 0)
PITCH_CABRER_DEG == F32Mul(PITCH_TOTAL_DEG, F32Div(F32Make(2, 0), F32Make(3, 0)))
PITCH_PIQUER_DEG == F32Mul(PITCH_TOTAL_DEG, F32Div(F32Make(1, 0), F32Make(3, 0)))
INVERT_ROLL == FALSE
INVERT_PITCH == FALSE
\* 0.3f = 10066330 * 2^-25
DEADZONE_ROLL_DEG == <<10066330, -25>>
DEADZONE_PITCH_DEG == <<10066330, -25>>
HID_MIN == -32767
HID_MAX == 32767
RECENTER_HOLD_MS == 2000
RECENTER_FORCE_HOLD_MS == 6000
\* 1.2f = 10066330 * 2^-23; in Q22 (half units of Q21) that is 5033165
RECENTER_MAX_ROLL_ERR_DEG == 5033165
RECENTER_MAX_PITCH_ERR_DEG == 5033165
EEPROM_MAGIC == <<19027, 17228>>            \* 0x4A53 434C
EEPROM_ADDR_MAGIC == 0
EEPROM_ADDR_ROLL == EEPROM_ADDR_MAGIC + 4
EEPROM_ADDR_PITCH == EEPROM_ADDR_ROLL + 4
BIT_FIRE_TRIGGER_1E_CRAN == 23
BIT_RECCE_EVENT_MARK == 17
BIT_TRIM_NOSE_DOWN == 15
BIT_TRIM_NOSE_UP == 13
BIT_TRIM_LWD == 12
BIT_TRIM_RWD == 14
BOOT_SAMPLES == 8
\* HID button indices
HID_FIRE_TRIGGER_1E_CRAN == 0
HID_WEAPON_RELEASE == 1
HID_UNDESIGNATE_NWS == 2
HID_DISENSAGE_PADDLE == 3
HID_RECCE_EVENT_MARK == 4
HID_FIRE_TRIGGER_2E_CRAN == 5
HID_SENSOR_CONTROL_FORWARD == 6
HID_SENSOR_CONTROL_RIGHT == 7
HID_SENSOR_CONTROL_BACKWARD == 8
HID_SENSOR_CONTROL_LEFT == 9
HID_CASTER_UP == 10
HID_CASTER_SWITCH == 11
HID_CASTER_DOWN == 12
HID_SENSOR_CONTROL_CENTER == 13
HID_WEAPON_SELECT_FORWARD == 14
HID_WEAPON_SELECT_RIGHT == 15
HID_WEAPON_SELECT_BACKWARD == 16
HID_WEAPON_SELECT_LEFT == 17
HID_WEAPON_SELECT_CENTER == 18
\* the other grip frame bits
BIT_WEAPON_RELEASE == 20
BIT_UNDESIGNATE_NWS == 19
BIT_DISENSAGE_PADDLE == 18
BIT_FIRE_TRIGGER_2E_CRAN == 16
BIT_SENSOR_CONTROL_FORWARD == 11
BIT_SENSOR_CONTROL_RIGHT == 10
BIT_SENSOR_CONTROL_BACKWARD == 9
BIT_SENSOR_CONTROL_LEFT == 8
BIT_SENSOR_CONTROL_CENTER == 4
BIT_CASTER_UP == 7
BIT_CASTER_SWITCH == 6
BIT_CASTER_DOWN == 5
BIT_WEAPON_SELECT_CENTER == 22
BIT_WEAPON_SELECT_FORWARD == 3
BIT_WEAPON_SELECT_RIGHT == 2
BIT_WEAPON_SELECT_BACKWARD == 1
BIT_WEAPON_SELECT_LEFT == 0

\* 360.0f and 180.0f in Q21
Deg360 == 360 * MT_ANGLE_FULL_SCALE
Deg180 == 180 * MT_ANGLE_FULL_SCALE

-----------------------------------------------------------------------------
(* Utility helpers *)

getBit24(v, bitIndex) == (v \div Pow2(bitIndex)) % 2 = 1

\* float d = aDeg - bDeg; while (d > 180) d -= 360; while (d < -180) d += 360;
\* mutant: the first loop subtracts a quarter turn
SubTurn_Quarter(d) == RoundF32(d - 90 * MT_ANGLE_FULL_SCALE)

\* d -= 360.0f;
SubTurn(d) == RoundF32(d - Deg360)

RECURSIVE wrapDown(_)
wrapDown(d) == IF d > Deg180 THEN wrapDown(SubTurn(d)) ELSE d
RECURSIVE wrapUp(_)
wrapUp(d) == IF d < -Deg180 THEN wrapUp(RoundF32(d + Deg360)) ELSE d

\* the number of times the body of each while loop runs
RECURSIVE wrapDownIters(_)
wrapDownIters(d) == IF d > Deg180 THEN 1 + wrapDownIters(SubTurn(d)) ELSE 0
RECURSIVE wrapUpIters(_)
wrapUpIters(d) == IF d < -Deg180 THEN 1 + wrapUpIters(RoundF32(d + Deg360)) ELSE 0

wrapDiffDeg(aDeg, bDeg) == wrapUp(wrapDown(RoundF32(aDeg - bDeg)))

\* (360.0f * (float)(angle21 & 0x1FFFFF)) / 2^21; the division by 2^21 is exact
angle21ToDeg(angle21) == RoundF32(360 * (angle21 % MT_ANGLE_FULL_SCALE))

\* the tail shared by both mappers, for a > deadzoneDeg >= 0:
\*   scaled = (a - deadzoneDeg) / (range - deadzoneDeg);
\*   v = (int32_t)(signedNorm * 32767.0f), clamped to [HID_MIN, HID_MAX]
\* mutant: the deadzone is subtracted but the travel is not renormalized
RescaleToHID_NoRenorm(deltaDeg, a, range, deadzoneDeg) ==
    LET scaled     == F32Div(F32Sub(a, deadzoneDeg), range)
        signedNorm == IF F32Lt(deltaDeg, F32Zero) THEN F32Neg(scaled) ELSE scaled
        v          == F32ToInt32(F32Mul(signedNorm, F32Make(32767, 0)))
    IN  IF v > HID_MAX THEN HID_MAX ELSE IF v < HID_MIN THEN HID_MIN ELSE v

RescaleToHID(deltaDeg, a, range, deadzoneDeg) ==
    LET scaled     == F32Div(F32Sub(a, deadzoneDeg), F32Sub(range, deadzoneDeg))
        signedNorm == IF F32Lt(deltaDeg, F32Zero) THEN F32Neg(scaled) ELSE scaled
        v          == F32ToInt32(F32Mul(signedNorm, F32Make(32767, 0)))
    IN  IF v > HID_MAX THEN HID_MAX ELSE IF v < HID_MIN THEN HID_MIN ELSE v

mapDegToHID_Symmetric(deltaDeg, halfRangeDeg, deadzoneDeg) ==
    LET d1  == IF F32Lt(halfRangeDeg, deltaDeg) THEN halfRangeDeg ELSE deltaDeg
        d2  == IF F32Lt(d1, F32Neg(halfRangeDeg)) THEN F32Neg(halfRangeDeg) ELSE d1
        a   == F32Abs(d2)
        dz1 == IF F32Lt(deadzoneDeg, F32Zero) THEN F32Zero ELSE deadzoneDeg
        dz2 == IF F32Lt(halfRangeDeg, dz1) THEN halfRangeDeg ELSE dz1
    IN  IF ~F32Lt(dz2, a) THEN 0
        ELSE RescaleToHID(d2, a, halfRangeDeg, dz2)

\* mutant: neither the delta nor the result is clamped
mapDegToHID_Asymmetric_NoClamp(deltaDeg, rangePosDeg, rangeNegDeg, deadzoneDeg) ==
    LET range == IF ~F32Lt(deltaDeg, F32Zero) THEN rangePosDeg ELSE rangeNegDeg
        a     == F32Abs(deltaDeg)
        dz1   == IF F32Lt(deadzoneDeg, F32Zero) THEN F32Zero ELSE deadzoneDeg
        dz2   == IF F32Lt(range, dz1) THEN range ELSE dz1
        scaled     == F32Div(F32Sub(a, dz2), F32Sub(range, dz2))
        signedNorm == IF F32Lt(deltaDeg, F32Zero) THEN F32Neg(scaled) ELSE scaled
    IN  IF F32Lt(range, <<8589935, -33>>) THEN 0
        ELSE IF ~F32Lt(dz2, a) THEN 0
        ELSE F32ToInt32(F32Mul(signedNorm, F32Make(32767, 0)))

mapDegToHID_Asymmetric(deltaDeg, rangePosDeg, rangeNegDeg, deadzoneDeg) ==
    LET range == IF ~F32Lt(deltaDeg, F32Zero) THEN rangePosDeg ELSE rangeNegDeg
        d1    == IF F32Lt(rangePosDeg, deltaDeg) THEN rangePosDeg ELSE deltaDeg
        d2    == IF F32Lt(d1, F32Neg(rangeNegDeg)) THEN F32Neg(rangeNegDeg) ELSE d1
        a     == F32Abs(d2)
        dz1   == IF F32Lt(deadzoneDeg, F32Zero) THEN F32Zero ELSE deadzoneDeg
        dz2   == IF F32Lt(range, dz1) THEN range ELSE dz1
    IN  IF F32Lt(range, <<8589935, -33>>) THEN 0         \* range < 0.001f
        ELSE IF ~F32Lt(dz2, a) THEN 0
        ELSE RescaleToHID(d2, a, range, dz2)

-----------------------------------------------------------------------------
(* EEPROM helpers *)

\* mutant: the bytes stored most significant first
eepromWriteU32_BigEndian(mem, addr, v) ==
    [a \in DOMAIN mem |->
        IF a = addr + 0 THEN v[1] \div 256
        ELSE IF a = addr + 1 THEN v[1] % 256
        ELSE IF a = addr + 2 THEN v[2] \div 256
        ELSE IF a = addr + 3 THEN v[2] % 256
        ELSE mem[a]]

eepromWriteU32(mem, addr, v) ==
    [a \in DOMAIN mem |->
        IF a = addr + 0 THEN v[2] % 256
        ELSE IF a = addr + 1 THEN v[2] \div 256
        ELSE IF a = addr + 2 THEN v[1] % 256
        ELSE IF a = addr + 3 THEN v[1] \div 256
        ELSE mem[a]]

eepromReadU32(mem, addr) ==
    <<mem[addr + 3] * 256 + mem[addr + 2], mem[addr + 1] * 256 + mem[addr + 0]>>

\* mutant: the range of the pitch center is not checked
loadCentersFromEEPROM_NoPitchCheck(mem, r0, p0) ==
    LET magic == eepromReadU32(mem, EEPROM_ADDR_MAGIC)
        r == eepromReadU32(mem, EEPROM_ADDR_ROLL)
        p == eepromReadU32(mem, EEPROM_ADDR_PITCH)
    IN  IF magic # EEPROM_MAGIC THEN [ok |-> FALSE, r |-> r0, p |-> p0]
        ELSE IF U32(U32Low21(r)) # r THEN [ok |-> FALSE, r |-> r, p |-> p]
        ELSE [ok |-> TRUE, r |-> r, p |-> p]

\* r and p are reference parameters: r0, p0 are the values they hold at the call
loadCentersFromEEPROM(mem, r0, p0) ==
    LET magic == eepromReadU32(mem, EEPROM_ADDR_MAGIC)
        r == eepromReadU32(mem, EEPROM_ADDR_ROLL)
        p == eepromReadU32(mem, EEPROM_ADDR_PITCH)
    IN  IF magic # EEPROM_MAGIC THEN [ok |-> FALSE, r |-> r0, p |-> p0]
        ELSE IF U32(U32Low21(r)) # r THEN [ok |-> FALSE, r |-> r, p |-> p]
        ELSE IF U32(U32Low21(p)) # p THEN [ok |-> FALSE, r |-> r, p |-> p]
        ELSE [ok |-> TRUE, r |-> r, p |-> p]

\* mutant: the pitch center is not written
saveCentersToEEPROM_RollOnly(mem, r, p) ==
    LET m1 == eepromWriteU32(mem, EEPROM_ADDR_MAGIC, EEPROM_MAGIC)
    IN  eepromWriteU32(m1, EEPROM_ADDR_ROLL, U32(U32Low21(r)))

saveCentersToEEPROM(mem, r, p) ==
    LET m1 == eepromWriteU32(mem, EEPROM_ADDR_MAGIC, EEPROM_MAGIC)
        m2 == eepromWriteU32(m1, EEPROM_ADDR_ROLL, U32(U32Low21(r)))
    IN  eepromWriteU32(m2, EEPROM_ADDR_PITCH, U32(U32Low21(p)))

-----------------------------------------------------------------------------
(* MT6835 *)

\* CRC-8, polynomial 0x07, MSB first over 24 bits
RECURSIVE mt_crc8_step(_, _, _)
mt_crc8_step(crc, data24, i) ==
    IF i < 0 THEN crc
    ELSE LET bit == (data24 \div Pow2(i)) % 2
             c7  == (crc \div 128) % 2
             sh  == (crc * 2) % 256
         IN  mt_crc8_step(IF c7 # bit THEN BitXor(sh, 7, 8) ELSE sh, data24, i - 1)

\* mutant: the loop starts at bit 22
mt_crc8_24bits_msb_From22(data24) == mt_crc8_step(0, data24, 22)

mt_crc8_24bits_msb(data24) == mt_crc8_step(0, data24, 23)

\* mutant: the low five bits of r005 are taken for the angle
readMT6835_burstAngle_NoShift(rx) ==
    LET angle21 == (rx[1] * 8192 + rx[2] * 32 + (rx[3] % 32)) % MT_ANGLE_FULL_SCALE
        status3 == rx[3] % 8
        data24  == angle21 * 8 + status3
    IN  [angle21 |-> angle21, status3 |-> status3,
         crc_ok |-> (mt_crc8_24bits_msb(data24) = rx[4])]

\* rx = <<r003, r004, r005, r006>>, the four bytes received in the burst read
readMT6835_burstAngle(rx) ==
    LET angle21 == (rx[1] * 8192 + rx[2] * 32 + ((rx[3] \div 8) % 32))
                       % MT_ANGLE_FULL_SCALE
        status3 == rx[3] % 8
        data24  == angle21 * 8 + status3
    IN  [angle21 |-> angle21, status3 |-> status3,
         crc_ok |-> (mt_crc8_24bits_msb(data24) = rx[4])]

-----------------------------------------------------------------------------
(* Grip *)

\* rx = <<b2, b1, b0>>
readGrip24(rx) == rx[1] * 65536 + rx[2] * 256 + rx[3]

\* mutant: up and down are read from the bits that bear their names
computeHatFromTrim_Unswapped(grip24) ==
    LET up    == getBit24(grip24, BIT_TRIM_NOSE_UP)
        down  == getBit24(grip24, BIT_TRIM_NOSE_DOWN)
        left  == getBit24(grip24, BIT_TRIM_LWD)
        right == getBit24(grip24, BIT_TRIM_RWD)
    IN  IF ~up /\ ~down /\ ~left /\ ~right THEN -1
        ELSE IF up /\ right THEN 45
        ELSE IF up /\ left THEN 315
        ELSE IF down /\ right THEN 135
        ELSE IF down /\ left THEN 225
        ELSE IF up THEN 0
        ELSE IF right THEN 90
        ELSE IF down THEN 180
        ELSE IF left THEN 270
        ELSE -1

computeHatFromTrim(grip24) ==
    LET up    == getBit24(grip24, BIT_TRIM_NOSE_DOWN)
        down  == getBit24(grip24, BIT_TRIM_NOSE_UP)
        left  == getBit24(grip24, BIT_TRIM_LWD)
        right == getBit24(grip24, BIT_TRIM_RWD)
    IN  IF ~up /\ ~down /\ ~left /\ ~right THEN -1
        ELSE IF up /\ right THEN 45
        ELSE IF up /\ left THEN 315
        ELSE IF down /\ right THEN 135
        ELSE IF down /\ left THEN 225
        ELSE IF up THEN 0
        ELSE IF right THEN 90
        ELSE IF down THEN 180
        ELSE IF left THEN 270
        ELSE -1

\* mutant: the paddle button is driven by the bit of the first trigger detent
updateButtonsFromGrip_PaddleFromTrigger(g) ==
    (HID_FIRE_TRIGGER_1E_CRAN :> getBit24(g, BIT_FIRE_TRIGGER_1E_CRAN)) @@
    (HID_WEAPON_RELEASE :> getBit24(g, BIT_WEAPON_RELEASE)) @@
    (HID_UNDESIGNATE_NWS :> getBit24(g, BIT_UNDESIGNATE_NWS)) @@
    (HID_DISENSAGE_PADDLE :> getBit24(g, BIT_FIRE_TRIGGER_1E_CRAN)) @@
    (HID_RECCE_EVENT_MARK :> getBit24(g, BIT_RECCE_EVENT_MARK)) @@
    (HID_FIRE_TRIGGER_2E_CRAN :> getBit24(g, BIT_FIRE_TRIGGER_2E_CRAN)) @@
    (HID_SENSOR_CONTROL_FORWARD :> getBit24(g, BIT_SENSOR_CONTROL_FORWARD)) @@
    (HID_SENSOR_CONTROL_RIGHT :> getBit24(g, BIT_SENSOR_CONTROL_RIGHT)) @@
    (HID_SENSOR_CONTROL_BACKWARD :> getBit24(g, BIT_SENSOR_CONTROL_BACKWARD)) @@
    (HID_SENSOR_CONTROL_LEFT :> getBit24(g, BIT_SENSOR_CONTROL_LEFT)) @@
    (HID_SENSOR_CONTROL_CENTER :> getBit24(g, BIT_SENSOR_CONTROL_CENTER)) @@
    (HID_CASTER_UP :> getBit24(g, BIT_CASTER_UP)) @@
    (HID_CASTER_SWITCH :> getBit24(g, BIT_CASTER_SWITCH)) @@
    (HID_CASTER_DOWN :> getBit24(g, BIT_CASTER_DOWN)) @@
    (HID_WEAPON_SELECT_FORWARD :> getBit24(g, BIT_WEAPON_SELECT_FORWARD)) @@
    (HID_WEAPON_SELECT_RIGHT :> getBit24(g, BIT_WEAPON_SELECT_RIGHT)) @@
    (HID_WEAPON_SELECT_BACKWARD :> getBit24(g, BIT_WEAPON_SELECT_BACKWARD)) @@
    (HID_WEAPON_SELECT_LEFT :> getBit24(g, BIT_WEAPON_SELECT_LEFT)) @@
    (HID_WEAPON_SELECT_CENTER :> getBit24(g, BIT_WEAPON_SELECT_CENTER))

\* the Joystick.setButton calls, as button index :> state
updateButtonsFromGrip(g) ==
    (HID_FIRE_TRIGGER_1E_CRAN :> getBit24(g, BIT_FIRE_TRIGGER_1E_CRAN)) @@
    (HID_WEAPON_RELEASE :> getBit24(g, BIT_WEAPON_RELEASE)) @@
    (HID_UNDESIGNATE_NWS :> getBit24(g, BIT_UNDESIGNATE_NWS)) @@
    (HID_DISENSAGE_PADDLE :> getBit24(g, BIT_DISENSAGE_PADDLE)) @@
    (HID_RECCE_EVENT_MARK :> getBit24(g, BIT_RECCE_EVENT_MARK)) @@
    (HID_FIRE_TRIGGER_2E_CRAN :> getBit24(g, BIT_FIRE_TRIGGER_2E_CRAN)) @@
    (HID_SENSOR_CONTROL_FORWARD :> getBit24(g, BIT_SENSOR_CONTROL_FORWARD)) @@
    (HID_SENSOR_CONTROL_RIGHT :> getBit24(g, BIT_SENSOR_CONTROL_RIGHT)) @@
    (HID_SENSOR_CONTROL_BACKWARD :> getBit24(g, BIT_SENSOR_CONTROL_BACKWARD)) @@
    (HID_SENSOR_CONTROL_LEFT :> getBit24(g, BIT_SENSOR_CONTROL_LEFT)) @@
    (HID_SENSOR_CONTROL_CENTER :> getBit24(g, BIT_SENSOR_CONTROL_CENTER)) @@
    (HID_CASTER_UP :> getBit24(g, BIT_CASTER_UP)) @@
    (HID_CASTER_SWITCH :> getBit24(g, BIT_CASTER_SWITCH)) @@
    (HID_CASTER_DOWN :> getBit24(g, BIT_CASTER_DOWN)) @@
    (HID_WEAPON_SELECT_FORWARD :> getBit24(g, BIT_WEAPON_SELECT_FORWARD)) @@
    (HID_WEAPON_SELECT_RIGHT :> getBit24(g, BIT_WEAPON_SELECT_RIGHT)) @@
    (HID_WEAPON_SELECT_BACKWARD :> getBit24(g, BIT_WEAPON_SELECT_BACKWARD)) @@
    (HID_WEAPON_SELECT_LEFT :> getBit24(g, BIT_WEAPON_SELECT_LEFT)) @@
    (HID_WEAPON_SELECT_CENTER :> getBit24(g, BIT_WEAPON_SELECT_CENTER))

recenterComboPressed(grip24) ==
    getBit24(grip24, BIT_RECCE_EVENT_MARK) /\ getBit24(grip24, BIT_FIRE_TRIGGER_1E_CRAN)

-----------------------------------------------------------------------------
(* Inputs: what the peripherals deliver *)

MaxNow == 8000                  \* loop cycles are explored while millis() <= MaxNow

\* the four bytes an MT6835 sends for (angle21, status3); a corrupted transfer
\* arrives with one bit of the CRC byte flipped
SensorFrame(angle21, status3, good) ==
    LET crc == mt_crc8_24bits_msb(angle21 * 8 + status3)
    IN  <<angle21 \div 8192, (angle21 \div 32) % 256, (angle21 % 32) * 8 + status3,
          IF good THEN crc ELSE BitXor(crc, 16, 8)>>

RollFrames ==
    { SensorFrame(1000, 0, TRUE),       \*   0.17 deg
      SensorFrame(2096152, 0, TRUE),    \* 359.83 deg: 0.34 deg below 1000, across the wrap
      SensorFrame(30000, 2, TRUE),      \*   5.15 deg: 4.98 deg above 1000
      SensorFrame(1048576, 0, FALSE) }  \* 180 deg, CRC failure

PitchFrames ==
    { SensorFrame(500000, 1, TRUE),
      SensorFrame(508000, 1, TRUE),     \* 1.37 deg above 500000
      SensorFrame(4242, 0, FALSE) }

\* raw grip frames <<b2, b1, b0>>, active low
GripFrames ==
    { <<255, 255, 255>>,                \* nothing pressed
      <<125, 255, 255>>,                \* bits 23 and 17 low: the recenter combo
      <<127, 127, 255>> }               \* bits 23 and 15 low: trigger and one trim bit

\* the stick held against a stop: the roll sensor 110.5 degrees from the center
\* 1000 (15.6 degrees of stick travel), the pitch sensor 8.6 degrees forward of
\* the center 500000
DeflectedRollFrames == { SensorFrame(645000, 0, TRUE) }
DeflectedPitchFrames == { SensorFrame(550000, 1, TRUE) }

\* milliseconds between two millis() readings of consecutive loop cycles
LoopDts == {1999, 2000, 6000}

\* the decoded reading of every frame the peripherals deliver
MT6835Read ==
    [rx \in RollFrames \cup PitchFrames \cup DeflectedRollFrames \cup DeflectedPitchFrames
        |-> readMT6835_burstAngle(rx)]

EepromOf(magic, r, p) ==
    eepromWriteU32(eepromWriteU32(eepromWriteU32([a \in 0..11 |-> 255],
        EEPROM_ADDR_MAGIC, magic), EEPROM_ADDR_ROLL, r), EEPROM_ADDR_PITCH, p)

InitEeproms ==
    { [a \in 0..11 |-> 255],                                \* erased part
      EepromOf(EEPROM_MAGIC, U32(1000), U32(500000)),       \* a valid record
      EepromOf(EEPROM_MAGIC, <<65535, 65535>>, U32(500000)) \* magic, roll out of range
    }

\* every degrees value and every center an axis can hold, given the inputs
AxisDegs(frames) == {0} \cup {angle21ToDeg(MT6835Read[rx].angle21) : rx \in frames}

AxisCenters(frames, addr) ==
    {0} \cup {MT6835Read[rx].angle21 : rx \in frames}
        \cup {U32Low21(eepromReadU32(mem, addr)) : mem \in InitEeproms}

\* loop(): x as a function of rollDeg and the roll center, tabulated over
\* the values that can occur
\*   float rollDelta = wrapDiffDeg(rollDeg, angle21ToDeg(rollCenter));
\*   if (INVERT_ROLL) rollDelta = -rollDelta;
\*   float rollDeltaMech = rollDelta * ROLL_SENSOR_TO_MECH_SCALE;
\*   int16_t x = mapDegToHID_Symmetric(rollDeltaMech, ROLL_HALF_DEG, DEADZONE_ROLL_DEG);
MapRollToHID ==
    [k \in AxisDegs(RollFrames \cup DeflectedRollFrames)
              \X AxisCenters(RollFrames, EEPROM_ADDR_ROLL) |->
        LET d         == wrapDiffDeg(k[1], angle21ToDeg(k[2]))
            rollDelta == IF INVERT_ROLL THEN -d ELSE d
        IN  mapDegToHID_Symmetric(F32Mul(F32FromDeg(rollDelta), ROLL_SENSOR_TO_MECH_SCALE),
                                  ROLL_HALF_DEG, DEADZONE_ROLL_DEG)] @@ <<>>

\* loop(): y as a function of pitchDeg and the pitch center
MapPitchToHID ==
    [k \in AxisDegs(PitchFrames \cup DeflectedPitchFrames)
              \X AxisCenters(PitchFrames, EEPROM_ADDR_PITCH) |->
        LET d          == wrapDiffDeg(k[1], angle21ToDeg(k[2]))
            pitchDelta == IF INVERT_PITCH THEN -d ELSE d
        IN  mapDegToHID_Asymmetric(F32FromDeg(pitchDelta), PITCH_PIQUER_DEG,
                                   PITCH_CABRER_DEG, DEADZONE_PITCH_DEG)] @@ <<>>

-----------------------------------------------------------------------------
(* State after construction (the static initialisers) *)

NoReading == [angle21 |-> 0, status3 |-> 0, crc_ok |-> TRUE]

Init ==
    /\ pc = "setup"
    /\ bootI = 0
    /\ eeprom \in InitEeproms
    /\ rollCenter = U32(0)
    /\ pitchCenter = U32(0)
    /\ centersValid = FALSE
    /\ recenterArmed = FALSE
    /\ recenterStartMs = U32(0)
    /\ recenterDoneThisHold = FALSE
    /\ recenterSafeTriedThisHold = FALSE
    /\ rollDegPrev = 0
    /\ pitchDegPrev = 0
    /\ lastGrip24 = <<65535, 65535>>
    /\ lastX = 32767
    /\ lastY = 32767
    /\ lastHat = -2
    /\ nowMs = U32(0)
    /\ roll = NoReading
    /\ pitch = NoReading
    /\ event = "reset"
    /\ args = <<>>

-----------------------------------------------------------------------------
(* setup() *)

\* centersValid = loadCentersFromEEPROM(rollCenter, pitchCenter);
SetupLoad ==
    /\ pc = "setup"
    /\ LET ld == loadCentersFromEEPROM(eeprom, rollCenter, pitchCenter)
       IN  /\ rollCenter' = ld.r
           /\ pitchCenter' = ld.p
           /\ centersValid' = ld.ok
           /\ pc' = IF ld.ok THEN "loop" ELSE "boot"
    /\ bootI' = 0
    /\ event' = "loaded"
    /\ UNCHANGED <<eeprom, recenterArmed, recenterStartMs, recenterDoneThisHold,
                   recenterSafeTriedThisHold, rollDegPrev, pitchDegPrev,
                   lastGrip24, lastX, lastY, lastHat, nowMs, roll, pitch, args>>

\* mutant: the sample is taken whatever its CRC result
BootCenter_IgnoresCrc(center, r) == U32(r.angle21)

\* if (r.crc_ok) rollCenter = r.angle21;   (and the same for pitch)
BootCenter(center, r) == IF r.crc_ok THEN U32(r.angle21) ELSE center

\* one iteration of  for (int i = 0; i < 8; i++)
BootSample ==
    /\ pc = "boot"
    /\ bootI < BOOT_SAMPLES
    /\ \E rf \in RollFrames, pf \in PitchFrames :
          LET r == MT6835Read[rf]
              p == MT6835Read[pf]
          IN  /\ rollCenter' = BootCenter(rollCenter, r)
              /\ pitchCenter' = BootCenter(pitchCenter, p)
              /\ roll' = r
              /\ pitch' = p
    /\ bootI' = bootI + 1
    /\ event' = "boot_sample"
    /\ UNCHANGED <<pc, eeprom, centersValid, recenterArmed, recenterStartMs,
                   recenterDoneThisHold, recenterSafeTriedThisHold, rollDegPrev,
                   pitchDegPrev, lastGrip24, lastX, lastY, lastHat, nowMs, args>>

\* mutant: the bootstrap saves the centers without marking them valid
BootSave_LeavesInvalid ==
    /\ pc = "boot"
    /\ bootI >= BOOT_SAMPLES
    /\ eeprom' = saveCentersToEEPROM(eeprom, rollCenter, pitchCenter)
    /\ pc' = "loop"
    /\ event' = "boot_init"
    /\ UNCHANGED <<bootI, rollCenter, pitchCenter, centersValid, recenterArmed,
                   recenterStartMs, recenterDoneThisHold, recenterSafeTriedThisHold,
                   rollDegPrev, pitchDegPrev, lastGrip24, lastX, lastY, lastHat, nowMs,
                   roll, pitch, args>>

\* saveCentersToEEPROM(rollCenter, pitchCenter); centersValid = true;
BootSave ==
    /\ pc = "boot"
    /\ bootI >= BOOT_SAMPLES
    /\ eeprom' = saveCentersToEEPROM(eeprom, rollCenter, pitchCenter)
    /\ centersValid' = TRUE
    /\ pc' = "loop"
    /\ event' = "boot_init"
    /\ UNCHANGED <<bootI, rollCenter, pitchCenter, recenterArmed, recenterStartMs,
                   recenterDoneThisHold, recenterSafeTriedThisHold, rollDegPrev,
                   pitchDegPrev, lastGrip24, lastX, lastY, lastHat, nowMs, roll, pitch, args>>

\* setup() on its own, up to the point where loop() takes over
NextSetup == SetupLoad \/ BootSample \/ BootSave

SpecSetup == Init /\ [][NextSetup]_vars

-----------------------------------------------------------------------------
(* loop() *)

\* the calibration and session as the recenter block leaves them
Session(rc, pcn, mem, valid, armed, start, done, tried, ev) ==
    [rollCenter |-> rc, pitchCenter |-> pcn, eeprom |-> mem, centersValid |-> valid,
     recenterArmed |-> armed, recenterStartMs |-> start,
     recenterDoneThisHold |-> done, recenterSafeTriedThisHold |-> tried, event |-> ev]

\* mutant: a commit does not close the hold
Commit_LeavesHoldOpen(r, p, valid, start, tried, ev) ==
    Session(U32(r.angle21), U32(p.angle21),
            saveCentersToEEPROM(eeprom, U32(r.angle21), U32(p.angle21)),
            valid, TRUE, start, FALSE, tried, ev)

\* rollCenter = roll.angle21; pitchCenter = pitch.angle21; saveCentersToEEPROM(...)
Commit(r, p, valid, start, tried, ev) ==
    Session(U32(r.angle21), U32(p.angle21),
            saveCentersToEEPROM(eeprom, U32(r.angle21), U32(p.angle21)),
            valid, TRUE, start, TRUE, tried, ev)

\* mutant: the forced recenter changes the centers in memory without saving them
ForcedRecenter_NoSave(r, p) ==
    IF r.crc_ok /\ p.crc_ok
    THEN Session(U32(r.angle21), U32(p.angle21), eeprom, TRUE, TRUE, recenterStartMs,
                 TRUE, recenterSafeTriedThisHold, "forced")
    ELSE Session(rollCenter, pitchCenter, eeprom, centersValid, TRUE, recenterStartMs,
                 TRUE, recenterSafeTriedThisHold, "force_nocommit")

\* mutant: the forced recenter commits without looking at the CRC results
ForcedRecenter_IgnoresCrc(r, p) ==
    Commit(r, p, TRUE, recenterStartMs, recenterSafeTriedThisHold, "forced")

\* mutant: a forced recenter that met a CRC failure is tried again next cycle
ForcedRecenter_RetryOnCrcFail(r, p) ==
    IF r.crc_ok /\ p.crc_ok
    THEN Commit(r, p, TRUE, recenterStartMs, recenterSafeTriedThisHold, "forced")
    ELSE Session(rollCenter, pitchCenter, eeprom, centersValid, TRUE, recenterStartMs,
                 FALSE, recenterSafeTriedThisHold, "force_nocommit")

\* if (held >= RECENTER_FORCE_HOLD_MS) { ... }
ForcedRecenter(r, p) ==
    IF r.crc_ok /\ p.crc_ok
    THEN Commit(r, p, TRUE, recenterStartMs, recenterSafeTriedThisHold, "forced")
    ELSE Session(rollCenter, pitchCenter, eeprom, centersValid, TRUE, recenterStartMs,
                 TRUE, recenterSafeTriedThisHold, "force_nocommit")

\* mutant: only the roll error is checked
okPos_RollOnly(rollDelta, pitchDelta) ==
    2 * Abs(rollDelta) <= RECENTER_MAX_ROLL_ERR_DEG

\* bool okPos = (rErr <= RECENTER_MAX_ROLL_ERR_DEG) && (pErr <= RECENTER_MAX_PITCH_ERR_DEG)
\* (the deltas are Q21, the bounds Q22)
okPos(rollDelta, pitchDelta) ==
    LET rErr == Abs(rollDelta)
        pErr == Abs(pitchDelta)
    IN  2 * rErr <= RECENTER_MAX_ROLL_ERR_DEG /\ 2 * pErr <= RECENTER_MAX_PITCH_ERR_DEG

\* mutant: a refused safe recenter resets the persisted record
RefuseSafe_WritesRecord ==
    Session(rollCenter, pitchCenter, saveCentersToEEPROM(eeprom, U32(0), U32(0)),
            centersValid, TRUE, recenterStartMs, FALSE, TRUE, "safe_refused")

\* mutant: a refused safe recenter ends the hold
RefuseSafe_SetsDone ==
    Session(rollCenter, pitchCenter, eeprom, centersValid, TRUE, recenterStartMs,
            TRUE, TRUE, "safe_refused")

\* mutant: a refused safe recenter is forgotten, so the next cycle tries again
RefuseSafe_NotTried ==
    Session(rollCenter, pitchCenter, eeprom, centersValid, TRUE, recenterStartMs,
            FALSE, FALSE, "safe_refused")

\* "RECENTER SAFE REFUSED": recenterDoneThisHold is not set
RefuseSafe ==
    Session(rollCenter, pitchCenter, eeprom, centersValid, TRUE, recenterStartMs,
            FALSE, TRUE, "safe_refused")

\* mutant: the safe recenter commits on the position check alone
SafeRecenter_IgnoresCrc(r, p, rollDelta, pitchDelta) ==
    IF ~centersValid
    THEN IF r.crc_ok /\ p.crc_ok
         THEN Commit(r, p, TRUE, recenterStartMs, TRUE, "init")
         ELSE Session(rollCenter, pitchCenter, eeprom, centersValid, TRUE,
                      recenterStartMs, TRUE, TRUE, "init_nocommit")
    ELSE IF okPos(rollDelta, pitchDelta)
         THEN Commit(r, p, centersValid, recenterStartMs, TRUE, "safe_ok")
         ELSE RefuseSafe

\* else if (held >= RECENTER_HOLD_MS && !recenterSafeTriedThisHold) { ... }
SafeRecenter(r, p, rollDelta, pitchDelta) ==
    IF ~centersValid
    THEN IF r.crc_ok /\ p.crc_ok
         THEN Commit(r, p, TRUE, recenterStartMs, TRUE, "init")
         ELSE Session(rollCenter, pitchCenter, eeprom, centersValid, TRUE,
                      recenterStartMs, TRUE, TRUE, "init_nocommit")
    ELSE IF okPos(rollDelta, pitchDelta) /\ r.crc_ok /\ p.crc_ok
         THEN Commit(r, p, centersValid, recenterStartMs, TRUE, "safe_ok")
         ELSE RefuseSafe

\* mutant: the arming cycle does not record the time
ArmSession_KeepsStart(now) ==
    Session(rollCenter, pitchCenter, eeprom, centersValid, TRUE, recenterStartMs,
            FALSE, FALSE, "arm")

\* if (!recenterArmed) { recenterArmed = true; recenterStartMs = millis(); ... }
ArmSession(now) ==
    Session(rollCenter, pitchCenter, eeprom, centersValid, TRUE, now, FALSE, FALSE, "arm")

\* what the release ends: no session, or one that was done, tried, or waiting
ReleaseEvent ==
    IF ~recenterArmed THEN "idle"
    ELSE IF recenterDoneThisHold THEN "released_done"
    ELSE IF recenterSafeTriedThisHold THEN "released_tried"
    ELSE "released"

\* mutant: the release forgets to clear recenterDoneThisHold
ReleasedSession_KeepsDone ==
    Session(rollCenter, pitchCenter, eeprom, centersValid,
            FALSE, recenterStartMs, recenterDoneThisHold, FALSE, ReleaseEvent)

\* Combo released: reset hold state
ReleasedSession ==
    Session(rollCenter, pitchCenter, eeprom, centersValid,
            FALSE, recenterStartMs, FALSE, FALSE, ReleaseEvent)

\* mutant: the timestamps are compared directly; a counter value below the
\* start of the hold gives no elapsed time
HeldMs_NoWrap(now, start) ==
    IF now[1] > start[1] \/ (now[1] = start[1] /\ now[2] >= start[2])
    THEN U32Sub(now, start) ELSE U32(0)

\* mutant: the start of the hold is not subtracted
HeldMs_FromZero(now, start) == now

\* uint32_t held = millis() - recenterStartMs;
HeldMs(now, start) == U32Sub(now, start)

\* the block  "Recenter (SAFE 2s / FORCED 6s)"; now is what millis() returns
Recenter(r, p, rollDelta, pitchDelta, combo, now) ==
    LET same(ev) == Session(rollCenter, pitchCenter, eeprom, centersValid,
                            recenterArmed, recenterStartMs, recenterDoneThisHold,
                            recenterSafeTriedThisHold, ev)
        held == HeldMs(now, recenterStartMs)
    IN  IF combo
        THEN IF ~recenterArmed
             THEN ArmSession(now)
             ELSE IF ~recenterDoneThisHold
             THEN IF U32Ge(held, RECENTER_FORCE_HOLD_MS)
                  THEN ForcedRecenter(r, p)
                  ELSE IF U32Ge(held, RECENTER_HOLD_MS) /\ ~recenterSafeTriedThisHold
                  THEN SafeRecenter(r, p, rollDelta, pitchDelta)
                  ELSE same(IF recenterSafeTriedThisHold THEN "tried" ELSE "wait")
             ELSE same("done")
        ELSE ReleasedSession

\* mutant: the reading is converted whatever its CRC result
ResolveDeg_NoFallback(r, degPrev) == angle21ToDeg(r.angle21)

\* Keep last valid degrees if CRC fails
ResolveDeg(r, degPrev) == IF r.crc_ok THEN angle21ToDeg(r.angle21) ELSE degPrev

\* mutant: the axes are mapped against the centers the recenter block leaves
LoopBody_MapsAfterRecenter(r, p, gf, now) ==
    LET rollDeg    == ResolveDeg(r, rollDegPrev)
        pitchDeg   == ResolveDeg(p, pitchDegPrev)
        rollWrap   == wrapDiffDeg(rollDeg, angle21ToDeg(U32Low21(rollCenter)))
        pitchWrap  == wrapDiffDeg(pitchDeg, angle21ToDeg(U32Low21(pitchCenter)))
        rollDelta  == IF INVERT_ROLL THEN -rollWrap ELSE rollWrap
        pitchDelta == IF INVERT_PITCH THEN -pitchWrap ELSE pitchWrap
        grip24     == 16777215 - readGrip24(gf)
        combo      == recenterComboPressed(grip24)
        hat        == computeHatFromTrim(grip24)
    IN  \E s \in {Recenter(r, p, rollDelta, pitchDelta, combo, now)} :
          /\ roll' = r
          /\ pitch' = p
          /\ rollDegPrev' = rollDeg
          /\ pitchDegPrev' = pitchDeg
          /\ nowMs' = now
          /\ rollCenter' = s.rollCenter
          /\ pitchCenter' = s.pitchCenter
          /\ eeprom' = s.eeprom
          /\ centersValid' = s.centersValid
          /\ recenterArmed' = s.recenterArmed
          /\ recenterStartMs' = s.recenterStartMs
          /\ recenterDoneThisHold' = s.recenterDoneThisHold
          /\ recenterSafeTriedThisHold' = s.recenterSafeTriedThisHold
          /\ event' = s.event
          /\ lastGrip24' = U32(grip24)
          /\ lastX' = MapRollToHID[<<rollDeg, U32Low21(s.rollCenter)>>]
          /\ lastY' = MapPitchToHID[<<pitchDeg, U32Low21(s.pitchCenter)>>]
          /\ lastHat' = hat

\* the rest of one loop() cycle, given the two readings, the raw grip frame
\* and the value millis() returns
LoopBody(r, p, gf, now) ==
    LET rollDeg    == ResolveDeg(r, rollDegPrev)
        pitchDeg   == ResolveDeg(p, pitchDegPrev)
        rollWrap   == wrapDiffDeg(rollDeg, angle21ToDeg(U32Low21(rollCenter)))
        pitchWrap  == wrapDiffDeg(pitchDeg, angle21ToDeg(U32Low21(pitchCenter)))
        rollDelta  == IF INVERT_ROLL THEN -rollWrap ELSE rollWrap
        pitchDelta == IF INVERT_PITCH THEN -pitchWrap ELSE pitchWrap
        grip24     == 16777215 - readGrip24(gf)
        combo      == recenterComboPressed(grip24)
        x          == MapRollToHID[<<rollDeg, U32Low21(rollCenter)>>]
        y          == MapPitchToHID[<<pitchDeg, U32Low21(pitchCenter)>>]
        hat        == computeHatFromTrim(grip24)
    IN  \E s \in {Recenter(r, p, rollDelta, pitchDelta, combo, now)} :
          /\ roll' = r
          /\ pitch' = p
          /\ rollDegPrev' = rollDeg
          /\ pitchDegPrev' = pitchDeg
          /\ nowMs' = now
          /\ rollCenter' = s.rollCenter
          /\ pitchCenter' = s.pitchCenter
          /\ eeprom' = s.eeprom
          /\ centersValid' = s.centersValid
          /\ recenterArmed' = s.recenterArmed
          /\ recenterStartMs' = s.recenterStartMs
          /\ recenterDoneThisHold' = s.recenterDoneThisHold
          /\ recenterSafeTriedThisHold' = s.recenterSafeTriedThisHold
          /\ event' = s.event
          /\ lastGrip24' = U32(grip24)
          /\ lastX' = (IF x # lastX THEN x ELSE lastX)
          /\ lastY' = (IF y # lastY THEN y ELSE lastY)
          /\ lastHat' = hat

Loop ==
    /\ pc = "loop"
    /\ \E dt \in LoopDts :
          /\ ~U32Ge(U32Add(nowMs, dt), MaxNow + 1)
          /\ \E rf \in RollFrames, pf \in PitchFrames, gf \in GripFrames :
                LoopBody(MT6835Read[rf], MT6835Read[pf], gf, U32Add(nowMs, dt))
    /\ UNCHANGED <<pc, bootI, args>>

Next == SetupLoad \/ BootSample \/ BootSave \/ Loop

Spec == Init /\ [][Next]_vars

\* the program booted with a stored record that the load rejects
InitInvalidBoot == Init /\ ~loadCentersFromEEPROM(eeprom, U32(0), U32(0)).ok

SpecInvalidBoot == InitInvalidBoot /\ [][Next]_vars

-----------------------------------------------------------------------------
(* loop() with the calls it makes at the HID boundary.  args is the record  *)
(* of the Joystick calls of the last cycle: <<v>> for a call with value v,  *)
(* <<>> for no call; setButton is the function button :> state of the       *)
(* setButton calls made.                                                    *)

\* "Update HID only when changed": the calls of a cycle that computed x, y,
\* grip24 and hat, given the cache the cycle found
HidOutput(x, y, grip24, hat) ==
    [setXAxis     |-> IF x # lastX THEN <<x>> ELSE <<>>,
     setYAxis     |-> IF y # lastY THEN <<y>> ELSE <<>>,
     setButton    |-> IF U32(grip24) # lastGrip24 THEN updateButtonsFromGrip(grip24)
                      ELSE <<>>,
     setHatSwitch |-> IF hat # lastHat THEN <<hat>> ELSE <<>>]

\* the program after a boot that found a valid stored record
InitHID == Init /\ loadCentersFromEEPROM(eeprom, U32(0), U32(0)).ok

\* one loop() cycle; the cache holds the cycle's x, y, grip24 and hat afterwards
LoopHID ==
    /\ pc = "loop"
    /\ \E dt \in LoopDts :
          /\ ~U32Ge(U32Add(nowMs, dt), MaxNow + 1)
          /\ \E rf \in RollFrames, pf \in PitchFrames, gf \in GripFrames :
                LoopBody(MT6835Read[rf], MT6835Read[pf], gf, U32Add(nowMs, dt))
    /\ args' = HidOutput(lastX', lastY', (lastGrip24'[1] % 256) * 65536 + lastGrip24'[2],
                         lastHat')
    /\ UNCHANGED <<pc, bootI>>

NextHID == SetupLoad \/ LoopHID

SpecHID == InitHID /\ [][NextHID]_vars

-----------------------------------------------------------------------------
(* The first loop() cycle after setup(), with the calls it makes at the HID *)
(* boundary; the stick may be anywhere, also against a stop.                *)

LoopFirst ==
    /\ pc = "loop"
    /\ event \in {"loaded", "boot_init"}
    /\ \E dt \in LoopDts :
          \E rf \in RollFrames \cup DeflectedRollFrames,
             pf \in PitchFrames \cup DeflectedPitchFrames, gf \in GripFrames :
                LoopBody(MT6835Read[rf], MT6835Read[pf], gf, U32Add(nowMs, dt))
    /\ args' = HidOutput(lastX', lastY', (lastGrip24'[1] % 256) * 65536 + lastGrip24'[2],
                         lastHat')
    /\ UNCHANGED <<pc, bootI>>

NextFirst == SetupLoad \/ BootSample \/ BootSave \/ LoopFirst

SpecFirst == Init /\ [][NextFirst]_vars

-----------------------------------------------------------------------------
(* loop() when the millisecond counter is about to overflow: the program    *)
(* has idled for 49.7 days with the stick at the stored centers.  args is   *)
(* <<ms since then, ms since then at which the present hold was armed>>.    *)

MaxWrapMs == 10000              \* loop cycles are explored for MaxWrapMs ms: a hold
                                \* armed at 1999 is forced at 7999 and seen again at 9998

\* millis() at the last idle cycle: 2^32 - 2000, 2^32 - 4000, 2^32 - 8000
WrapStarts == { <<65535, 63536>>, <<65535, 61536>>, <<65535, 57536>> }

InitWrap ==
    /\ pc = "loop"
    /\ bootI = 0
    /\ eeprom = EepromOf(EEPROM_MAGIC, U32(1000), U32(500000))
    /\ rollCenter = U32(1000)
    /\ pitchCenter = U32(500000)
    /\ centersValid = TRUE
    /\ recenterArmed = FALSE
    /\ recenterStartMs = U32(0)
    /\ recenterDoneThisHold = FALSE
    /\ recenterSafeTriedThisHold = FALSE
    /\ rollDegPrev = angle21ToDeg(1000)
    /\ pitchDegPrev = angle21ToDeg(500000)
    /\ lastGrip24 = U32(0)
    /\ lastX = 0
    /\ lastY = 0
    /\ lastHat = -1
    /\ nowMs \in WrapStarts
    /\ roll = MT6835Read[SensorFrame(1000, 0, TRUE)]
    /\ pitch = MT6835Read[SensorFrame(500000, 1, TRUE)]
    /\ event = "idle"
    /\ args = <<0, 0>>

LoopWrap ==
    /\ pc = "loop"
    /\ \E dt \in LoopDts :
          /\ args[1] + dt <= MaxWrapMs
          /\ \E rf \in RollFrames, pf \in PitchFrames, gf \in GripFrames :
                LoopBody(MT6835Read[rf], MT6835Read[pf], gf, U32Add(nowMs, dt))
          /\ args' = <<args[1] + dt,
                       IF ~recenterArmed /\ recenterArmed' THEN args[1] + dt ELSE args[2]>>
    /\ UNCHANGED <<pc, bootI>>

NextWrap == LoopWrap

SpecWrap == InitWrap /\ [][NextWrap]_vars

-----------------------------------------------------------------------------
(* The calibration store on its own: save then load, from any prior content *)

Centers21 == {0, 1, 255, 256, 65535, 65536, 2097151}

PriorEeproms == InitEeproms \cup {[a \in 0..11 |-> 0]}

InitStore ==
    /\ pc = "store"
    /\ bootI = 0
    /\ eeprom \in PriorEeproms
    /\ rollCenter = U32(0)
    /\ pitchCenter = U32(0)
    /\ centersValid = FALSE
    /\ recenterArmed = FALSE
    /\ recenterStartMs = U32(0)
    /\ recenterDoneThisHold = FALSE
    /\ recenterSafeTriedThisHold = FALSE
    /\ rollDegPrev = 0
    /\ pitchDegPrev = 0
    /\ lastGrip24 = <<65535, 65535>>
    /\ lastX = 32767
    /\ lastY = 32767
    /\ lastHat = -2
    /\ nowMs = U32(0)
    /\ roll = NoReading
    /\ pitch = NoReading
    /\ event = "reset"
    /\ args = <<>>

StoreSave ==
    /\ pc \in {"store", "loaded"}
    /\ \E r \in Centers21, p \in Centers21 :
          /\ eeprom' = saveCentersToEEPROM(eeprom, U32(r), U32(p))
          /\ args' = <<r, p>>
    /\ pc' = "saved"
    /\ UNCHANGED <<bootI, rollCenter, pitchCenter, centersValid, recenterArmed,
                   recenterStartMs, recenterDoneThisHold, recenterSafeTriedThisHold,
                   rollDegPrev, pitchDegPrev, lastGrip24, lastX, lastY, lastHat, nowMs, roll, pitch,
                   event>>

StoreLoad ==
    /\ pc = "saved"
    /\ LET ld == loadCentersFromEEPROM(eeprom, rollCenter, pitchCenter)
       IN  /\ rollCenter' = ld.r
           /\ pitchCenter' = ld.p
           /\ centersValid' = ld.ok
    /\ pc' = "loaded"
    /\ UNCHANGED <<bootI, eeprom, recenterArmed, recenterStartMs, recenterDoneThisHold,
                   recenterSafeTriedThisHold, rollDegPrev, pitchDegPrev, lastGrip24,
                   lastX, lastY, lastHat, nowMs, roll, pitch, event, args>>

NextStore == StoreSave \/ StoreLoad

SpecStore == InitStore /\ [][NextStore]_vars

-----------------------------------------------------------------------------
(* The functions on their own: the static initialisers, except for the      *)
(* position, the storage content and the inputs of the function under check *)

Parked(position, mem, inputs) ==
    /\ pc = position
    /\ bootI = 0
    /\ eeprom = mem
    /\ rollCenter = U32(0)
    /\ pitchCenter = U32(0)
    /\ centersValid = FALSE
    /\ recenterArmed = FALSE
    /\ recenterStartMs = U32(0)
    /\ recenterDoneThisHold = FALSE
    /\ recenterSafeTriedThisHold = FALSE
    /\ rollDegPrev = 0
    /\ pitchDegPrev = 0
    /\ lastGrip24 = <<65535, 65535>>
    /\ lastX = 32767
    /\ lastY = 32767
    /\ lastHat = -2
    /\ nowMs = U32(0)
    /\ roll = NoReading
    /\ pitch = NoReading
    /\ event = "reset"
    /\ args = inputs

(* loadCentersFromEEPROM over storage contents around each validity bound *)

LoadMagics ==
    { EEPROM_MAGIC,
      <<19027, 17229>>,         \* one bit off in byte 0
      <<19283, 17228>>,         \* one bit off in byte 3
      <<17228, 19027>>,         \* the halves exchanged
      <<0, 0>>, <<65535, 65535>> }

LoadWords ==
    { <<0, 0>>, <<0, 1000>>,
      <<31, 65535>>,            \* 2^21 - 1
      <<32, 0>>,                \* 2^21
      <<32, 1000>>,
      <<256, 0>>,               \* 2^24
      <<32768, 0>>,             \* 2^31
      <<65535, 65535>> }

LoadEeproms == { EepromOf(m, r, p) : m \in LoadMagics, r \in LoadWords, p \in LoadWords }

InitLoad == \E mem \in LoadEeproms : Parked("load", mem, <<>>)

\* centersValid = loadCentersFromEEPROM(rollCenter, pitchCenter);
LoadCenters ==
    /\ pc = "load"
    /\ LET ld == loadCentersFromEEPROM(eeprom, rollCenter, pitchCenter)
       IN  /\ rollCenter' = ld.r
           /\ pitchCenter' = ld.p
           /\ centersValid' = ld.ok
    /\ pc' = "loaded"
    /\ UNCHANGED <<bootI, eeprom, recenterArmed, recenterStartMs, recenterDoneThisHold,
                   recenterSafeTriedThisHold, rollDegPrev, pitchDegPrev, lastGrip24,
                   lastX, lastY, lastHat, nowMs, roll, pitch, event, args>>

NextLoad == LoadCenters

SpecLoad == InitLoad /\ [][NextLoad]_vars

-----------------------------------------------------------------------------
(* The grip part of loop() on its own: the frame is read, normalized and    *)
(* decoded, starting from the static initialisers.  args is the raw frame   *)
(* <<b2, b1, b0>>, then the record of the frame, the combo and the calls.   *)

\* raw frames: every combination of the four trim bits (bits 12..15) with
\* several settings of the other bits, and every frame with one bit low
RawGripFrames ==
    { <<b2, trim * 16 + low, b0>> :
        b2 \in {255, 0, 125, 170}, trim \in 0..15, low \in {15, 0, 10}, b0 \in {255, 0, 165} }
    \cup { <<255 - Pow2(i), 255, 255>> : i \in 0..7 }
    \cup { <<255, 255 - Pow2(i), 255>> : i \in 0..7 }
    \cup { <<255, 255, 255 - Pow2(i)>> : i \in 0..7 }

InitGrip == \E raw \in RawGripFrames : Parked("grip", [a \in 0..11 |-> 255], raw)

\* uint32_t grip24 = readGrip24(); grip24 = ~grip24 & 0xFFFFFF; ... hat, buttons
DecodeGrip ==
    /\ pc = "grip"
    /\ LET grip24 == 16777215 - readGrip24(args)
           hat    == computeHatFromTrim(grip24)
       IN  /\ args' = [raw   |-> args,
                       combo |-> recenterComboPressed(grip24),
                       out   |-> HidOutput(lastX, lastY, grip24, hat)]
           /\ lastGrip24' = U32(grip24)
           /\ lastHat' = hat
    /\ pc' = "decoded"
    /\ UNCHANGED <<bootI, eeprom, rollCenter, pitchCenter, centersValid, recenterArmed,
                   recenterStartMs, recenterDoneThisHold, recenterSafeTriedThisHold,
                   rollDegPrev, pitchDegPrev, lastX, lastY, nowMs, roll, pitch, event>>

NextGrip == DecodeGrip

SpecGrip == InitGrip /\ [][NextGrip]_vars

-----------------------------------------------------------------------------
(* wrapDiffDeg on its own, applied as loop() applies it: to the degrees of  *)
(* a sensor angle and of a center.  args is <<angle21, center21>>, then     *)
(* <<angle21, center21, d>>.                                                *)

\* 21-bit encoder values: the ends, the half turn and its neighbours, others
Angles21 ==
    {0, 1, 1000, 30000, 500000, 524288, 1048575, 1048576, 1048577, 1572864,
     2000000, 2097151}

InitAngles ==
    \E a \in Angles21, b \in Angles21 : Parked("angles", [i \in 0..11 |-> 255], <<a, b>>)

\* float rollDeg = angle21ToDeg(...); ... wrapDiffDeg(rollDeg, rollCenterDeg)
WrapDiff ==
    /\ pc = "angles"
    /\ args' = <<args[1], args[2],
                 wrapDiffDeg(angle21ToDeg(args[1]), angle21ToDeg(args[2]))>>
    /\ pc' = "wrapped"
    /\ UNCHANGED <<bootI, eeprom, rollCenter, pitchCenter, centersValid, recenterArmed,
                   recenterStartMs, recenterDoneThisHold, recenterSafeTriedThisHold,
                   rollDegPrev, pitchDegPrev, lastX, lastY, lastGrip24, lastHat,
                   nowMs, roll, pitch, event>>

NextAngles == WrapDiff

SpecAngles == InitAngles /\ [][NextAngles]_vars

-----------------------------------------------------------------------------
(* The two axis mappers on their own.  args is <<deltaDeg, rangePosDeg,     *)
(* rangeNegDeg, deadzoneDeg>> as binary32 pairs, then the record of the     *)
(* inputs and of the results: asym of the asymmetric mapper, sym and symNeg *)
(* of the symmetric mapper with rangePosDeg and with rangeNegDeg as its     *)
(* half range.                                                              *)

\* ranges: the three of the program, zero, 2^-11 (below 0.001f) and 1
MapRanges ==
    {ROLL_HALF_DEG, PITCH_CABRER_DEG, PITCH_PIQUER_DEG, F32Zero, F32Make(1, -11),
     F32Make(1, 0)}

\* deadzones: none, the program's, 1 degree, a negative one, one above every range
MapDeadzones ==
    {F32Zero, DEADZONE_ROLL_DEG, F32Make(1, 0), F32Make(-1, -1), F32Make(20, 0)}

\* encoder deltas, as counts of encoder steps of 360 / 2^21 degrees
MapSteps ==
    {0, 1, 2, 3, 100, 1747, 1748, 1749, 1752, 1800, 3000, 5825, 5826, 20000, 46603,
     46604, 90000, 93207, 100000, 524288}

MapDeltas ==
    { F32FromDeg(s * 360 * n) : s \in {-1, 1}, n \in MapSteps }
    \cup MapRanges \cup { F32Neg(x) : x \in MapRanges }
    \cup MapDeadzones \cup { F32Neg(x) : x \in MapDeadzones }

InitMap ==
    \E d \in MapDeltas, rp \in MapRanges, rn \in MapRanges, dz \in MapDeadzones :
        Parked("map", [i \in 0..11 |-> 255], <<d, rp, rn, dz>>)

MapAxes ==
    /\ pc = "map"
    /\ args' = [deltaDeg |-> args[1], rangePosDeg |-> args[2], rangeNegDeg |-> args[3],
                deadzoneDeg |-> args[4],
                sym  |-> mapDegToHID_Symmetric(args[1], args[2], args[4]),
                symNeg |-> mapDegToHID_Symmetric(args[1], args[3], args[4]),
                asym |-> mapDegToHID_Asymmetric(args[1], args[2], args[3], args[4])]
    /\ pc' = "mapped"
    /\ UNCHANGED <<bootI, eeprom, rollCenter, pitchCenter, centersValid, recenterArmed,
                   recenterStartMs, recenterDoneThisHold, recenterSafeTriedThisHold,
                   rollDegPrev, pitchDegPrev, lastX, lastY, lastGrip24, lastHat,
                   nowMs, roll, pitch, event>>

NextMap == MapAxes

SpecMap == InitMap /\ [][NextMap]_vars

-----------------------------------------------------------------------------
(* A burst read whose angle/status bits arrive with one bit flipped: the    *)
(* sensor computes the CRC byte over data24, bit i of the 24 data bits is   *)
(* flipped on the wire, and readMT6835_burstAngle decodes what arrives.     *)
(* args is <<data24, i>>, then the record of both CRCs and of the result.   *)

\* 24-bit values ANGLE[20:0] : STATUS[2:0]
CrcData ==
    { k * 419431 : k \in 0..39 } \cup {1, 8, 8388608, 16777215, 11184810, 5592405}

FlipBit24(v, i) == IF getBit24(v, i) THEN v - Pow2(i) ELSE v + Pow2(i)

\* the bytes r003..r006 received for the data bits d and the CRC byte c
BurstBytes(d, c) == <<d \div 65536, (d \div 256) % 256, d % 256, c>>

InitCrc ==
    \E d \in CrcData, i \in 0..23 : Parked("crc", [a \in 0..11 |-> 255], <<d, i>>)

ReadFlipped ==
    /\ pc = "crc"
    /\ LET sent == mt_crc8_24bits_msb(args[1])
           recv == FlipBit24(args[1], args[2])
       IN  args' = [data24 |-> args[1], i |-> args[2],
                    crc |-> sent,
                    crcFlipped |-> mt_crc8_24bits_msb(recv),
                    res |-> readMT6835_burstAngle(BurstBytes(recv, sent))]
    /\ pc' = "crc_read"
    /\ UNCHANGED <<bootI, eeprom, rollCenter, pitchCenter, centersValid, recenterArmed,
                   recenterStartMs, recenterDoneThisHold, recenterSafeTriedThisHold,
                   rollDegPrev, pitchDegPrev, lastX, lastY, lastGrip24, lastHat,
                   nowMs, roll, pitch, event>>

NextCrc == ReadFlipped

SpecCrc == InitCrc /\ [][NextCrc]_vars

-----------------------------------------------------------------------------
(* A burst read of any four bytes.  args is the received <<r003, r004,      *)
(* r005, r006>>, then the record of the bytes and of the decoded result.    *)

\* values of one received byte: the extremes, single bits, mixed patterns
BurstByteValues == {0, 1, 7, 8, 31, 32, 85, 128, 170, 248, 255}

\* values of the CRC byte, apart from the CRC the sensor would have sent
BurstCrcValues == {0, 7, 255}

InitBurst ==
    \E b0 \in BurstByteValues, b1 \in BurstByteValues, b2 \in BurstByteValues :
        \E b3 \in BurstCrcValues \cup {mt_crc8_24bits_msb(b0 * 65536 + b1 * 256 + b2)} :
            Parked("burst", [a \in 0..11 |-> 255], <<b0, b1, b2, b3>>)

ReadBurst ==
    /\ pc = "burst"
    /\ args' = [rx |-> args, res |-> readMT6835_burstAngle(args)]
    /\ pc' = "burst_read"
    /\ UNCHANGED <<bootI, eeprom, rollCenter, pitchCenter, centersValid, recenterArmed,
                   recenterStartMs, recenterDoneThisHold, recenterSafeTriedThisHold,
                   rollDegPrev, pitchDegPrev, lastX, lastY, lastGrip24, lastHat,
                   nowMs, roll, pitch, event>>

NextBurst == ReadBurst

SpecBurst == InitBurst /\ [][NextBurst]_vars

-----------------------------------------------------------------------------
(* The chip-select lines and the SPI bus, statement by statement: the pin   *)
(* initialisation of setup(), the bootstrap reads, and the three reads of   *)
(* every loop cycle.  args is the record                                    *)
(*   cs    : the level of each line, "Z" while the pin is still an input    *)
(*   latch : the output latch of each pin; pinMode(pin, OUTPUT) drives the  *)
(*           line at the level of the latch, which the sketch has not       *)
(*           written before, so every content at entry to setup() is taken  *)
(*   owner : the settings of the SPI transaction in progress, or "none"     *)
(*   dev   : the peripheral of the current or next transaction              *)
(*   pos   : the position inside readMT6835_burstAngle / readGrip24         *)
(*   k     : the bytes transferred in the transaction                       *)
(*   stmt  : the next pin statement of setup(), 1..6, then 7                *)

CsLines == {"roll", "pitch", "grip"}

\* the line of the n-th pinMode / digitalWrite statement of setup()
SetupLine(n) == IF n % 3 = 1 THEN "roll" ELSE IF n % 3 = 2 THEN "pitch" ELSE "grip"

\* SPISettings of the transaction of a peripheral
SettingsOf(dev) == IF dev = "grip" THEN "spiGRIP" ELSE "spiMT"

\* SPI.transfer calls of the transaction of a peripheral
TransfersOf(dev) == IF dev = "grip" THEN 3 ELSE 6

InitBus ==
    \E latch \in [CsLines -> {"LOW", "HIGH"}],
       mem \in {[a \in 0..11 |-> 255], saveCentersToEEPROM([a \in 0..11 |-> 255], U32(1000), U32(500000))} :
        Parked("bus_setup", mem,
               [cs |-> [l \in CsLines |-> "Z"], latch |-> latch, owner |-> "none",
                dev |-> "roll", pos |-> "idle", k |-> 0, stmt |-> 1])

BusUnchanged ==
    UNCHANGED <<eeprom, rollCenter, pitchCenter, centersValid, recenterArmed,
                recenterStartMs, recenterDoneThisHold, recenterSafeTriedThisHold,
                rollDegPrev, pitchDegPrev, lastX, lastY, lastGrip24, lastHat,
                nowMs, roll, pitch, event>>

\* pinMode(PIN_CS_x, OUTPUT)
PinModeOutput ==
    /\ pc = "bus_setup" /\ args.stmt \in 1..3
    /\ args' = [args EXCEPT !.cs[SetupLine(args.stmt)] = args.latch[SetupLine(args.stmt)],
                            !.stmt = @ + 1]
    /\ UNCHANGED <<pc, bootI>> /\ BusUnchanged

\* digitalWrite(PIN_CS_x, HIGH) of setup()
DigitalWriteIdle ==
    /\ pc = "bus_setup" /\ args.stmt \in 4..6
    /\ args' = [args EXCEPT !.cs[SetupLine(args.stmt)] = "HIGH",
                            !.latch[SetupLine(args.stmt)] = "HIGH",
                            !.stmt = @ + 1]
    /\ UNCHANGED <<pc, bootI>> /\ BusUnchanged

\* SPI.begin(); ... centersValid = loadCentersFromEEPROM(...); if (!centersValid) ...
SpiBeginAndLoad ==
    /\ pc = "bus_setup" /\ args.stmt = 7
    /\ pc' = IF loadCentersFromEEPROM(eeprom, rollCenter, pitchCenter).ok
             THEN "bus_loop" ELSE "bus_boot"
    /\ UNCHANGED <<args, bootI>> /\ BusUnchanged

\* SPI.beginTransaction(spiMT / spiGRIP)
BeginTransaction ==
    /\ pc \in {"bus_boot", "bus_loop"} /\ args.pos = "idle"
    /\ args' = [args EXCEPT !.owner = SettingsOf(args.dev), !.pos = "begun", !.k = 0]
    /\ UNCHANGED <<pc, bootI>> /\ BusUnchanged

\* digitalWrite(csPin, LOW)
CsLow ==
    /\ args.pos = "begun"
    /\ args' = [args EXCEPT !.cs[args.dev] = "LOW", !.latch[args.dev] = "LOW", !.pos = "low"]
    /\ UNCHANGED <<pc, bootI>> /\ BusUnchanged

\* SPI.transfer(...)
Transfer ==
    /\ args.pos = "low" /\ args.k < TransfersOf(args.dev)
    /\ args' = [args EXCEPT !.k = @ + 1]
    /\ UNCHANGED <<pc, bootI>> /\ BusUnchanged

\* digitalWrite(csPin, HIGH)
CsHigh ==
    /\ args.pos = "low" /\ args.k = TransfersOf(args.dev)
    /\ args' = [args EXCEPT !.cs[args.dev] = "HIGH", !.latch[args.dev] = "HIGH", !.pos = "high"]
    /\ UNCHANGED <<pc, bootI>> /\ BusUnchanged

\* SPI.endTransaction(); the next read is the one the caller makes next:
\* setup() reads roll, pitch eight times, loop() reads roll, pitch, grip
EndTransaction ==
    /\ args.pos = "high"
    /\ LET lastOfBoot == pc = "bus_boot" /\ args.dev = "pitch"
           next == IF args.dev = "roll" THEN "pitch"
                   ELSE IF args.dev = "pitch" /\ pc = "bus_loop" THEN "grip"
                   ELSE "roll"
       IN  /\ args' = [args EXCEPT !.owner = "none", !.pos = "idle", !.dev = next]
           /\ bootI' = IF lastOfBoot THEN bootI + 1 ELSE bootI
           /\ pc' = IF lastOfBoot /\ bootI + 1 = BOOT_SAMPLES THEN "bus_loop" ELSE pc
    /\ BusUnchanged

NextBus ==
    \/ PinModeOutput \/ DigitalWriteIdle \/ SpiBeginAndLoad
    \/ BeginTransaction \/ CsLow \/ Transfer \/ CsHigh \/ EndTransaction

SpecBus == InitBus /\ [][NextBus]_vars

-----------------------------------------------------------------------------
(* OHC_Common/DCS_State_Checker.h.  args is the record of the header's      *)
(* statics (acftName as the characters before the terminator), with         *)
(*   millis : what millis() returned at the last call (0 at boot)           *)
(*   ret    : what the last call of getDcsState returned                    *)
(*   changed: whether that call found currDcsHeartbeat != prevDcsHeartbeat  *)
(*   quiet  : the milliseconds that have passed since the last call that    *)
(*            found a change, or since boot, summed without wrap-around     *)
(*   calls  : the number of calls made                                      *)

PAUSED_TIMEOUT_MS == 10000
EXITED_TIMEOUT_MS == 1800000
RPM_THRESHOLD == 50

MaxDcsCalls == 3                \* calls of getDcsState explored

\* a char* argument: the null pointer, or the characters before the terminator
NullPtr == [null |-> TRUE, str |-> <<>>]
CharPtr(s) == [null |-> FALSE, str |-> s]

\* strncpy(dst, src, n - 1); dst[n - 1] = '\0';  as the characters kept
strncpyTerminated(src, n) == IF Len(src) > n - 1 THEN SubSeq(src, 1, n - 1) ELSE src

\* atoi: leading white space, an optional sign, then decimal digits
RECURSIVE atoiDigits(_, _, _)
atoiDigits(s, i, acc) ==
    IF i <= Len(s) /\ s[i] \in 48..57
    THEN atoiDigits(s, i + 1, acc * 10 + (s[i] - 48))
    ELSE acc

RECURSIVE atoiFrom(_, _)
atoiFrom(s, i) ==
    IF i > Len(s) THEN 0
    ELSE IF s[i] = 32 \/ s[i] \in 9..13 THEN atoiFrom(s, i + 1)
    ELSE IF s[i] = 45 THEN -atoiDigits(s, i + 1, 0)
    ELSE IF s[i] = 43 THEN atoiDigits(s, i + 1, 0)
    ELSE atoiDigits(s, i, 0)

atoi(s) == atoiFrom(s, 1)

\* mutant: the timeouts are compared with > instead of >=
getDcsState_StrictTimeout(s, currentTime) ==
    LET changed == s.currDcsHeartbeat # s.prevDcsHeartbeat
        tsu == IF changed THEN U32(0) ELSE U32Sub(currentTime, s.dcsLastUpdateTime)
    IN  [changed |-> changed,
         dcsLastUpdateTime |-> IF changed THEN currentTime ELSE s.dcsLastUpdateTime,
         prevDcsHeartbeat  |-> IF changed THEN s.currDcsHeartbeat ELSE s.prevDcsHeartbeat,
         ret |-> IF s.acftName = <<>> \/ U32Ge(tsu, EXITED_TIMEOUT_MS + 1) THEN "EXITED"
                 ELSE IF U32Ge(tsu, PAUSED_TIMEOUT_MS + 1) THEN "PAUSED"
                 ELSE IF s.wowLeft = 0 /\ s.wowRight = 0 THEN "AIRBORNE"
                 ELSE IF s.rpmLeft >= RPM_THRESHOLD /\ s.rpmRight >= RPM_THRESHOLD
                 THEN "GROUND_HOT" ELSE "GROUND_COLD"]

\* getDcsState() with the statics s, millis() returning currentTime: the
\* return value and the statics it assigns
getDcsState(s, currentTime) ==
    LET changed == s.currDcsHeartbeat # s.prevDcsHeartbeat
        timeSinceUpdate == IF changed THEN U32(0)
                           ELSE U32Sub(currentTime, s.dcsLastUpdateTime)
        hasAircraft == s.acftName # <<>>
    IN  [changed |-> changed,
         dcsLastUpdateTime |-> IF changed THEN currentTime ELSE s.dcsLastUpdateTime,
         prevDcsHeartbeat  |-> IF changed THEN s.currDcsHeartbeat ELSE s.prevDcsHeartbeat,
         ret |-> IF ~hasAircraft \/ U32Ge(timeSinceUpdate, EXITED_TIMEOUT_MS) THEN "EXITED"
                 ELSE IF U32Ge(timeSinceUpdate, PAUSED_TIMEOUT_MS) THEN "PAUSED"
                 ELSE IF s.wowLeft = 0 /\ s.wowRight = 0 THEN "AIRBORNE"
                 ELSE IF s.rpmLeft >= RPM_THRESHOLD /\ s.rpmRight >= RPM_THRESHOLD
                 THEN "GROUND_HOT" ELSE "GROUND_COLD"]

\* milliseconds between two readings of millis(): around both timeouts, and
\* 2147480000, two of which bring the counter to 7296 below its overflow
DcsDts == {9999, 10000, 1799999, 1800000, 2147480000}

\* a + n < 2^32
U32AddFits(a, n) == a[1] + (n \div 65536) + ((a[2] + (n % 65536)) \div 65536) < 65536

\* aircraft names DCS-BIOS delivers: none, "FA-18C", and one of 26 characters
AcftNames ==
    {NullPtr, CharPtr(<<>>), CharPtr(<<70, 65, 45, 49, 56, 67>>),
     CharPtr([i \in 1..26 |-> 64 + i])}

\* IFEI RPM strings: none, " 49", "50"
RpmStrings == {NullPtr, CharPtr(<<>>), CharPtr(<<32, 52, 57>>), CharPtr(<<53, 48>>)}

InitDcsState ==
    Parked("dcs", [a \in 0..11 |-> 255],
           [acftName |-> <<>>, rpmLeft |-> 0, rpmRight |-> 0, wowLeft |-> 1, wowRight |-> 1,
            currDcsHeartbeat |-> 0, prevDcsHeartbeat |-> 0, dcsLastUpdateTime |-> U32(0),
            millis |-> U32(0), ret |-> "none", changed |-> FALSE, quiet |-> U32(0),
            calls |-> 0])

DcsUnchanged == UNCHANGED <<pc, bootI>> /\ BusUnchanged

\* a call of getDcsState(), dt milliseconds after the previous reading of millis()
GetDcsState ==
    /\ pc = "dcs" /\ args.calls < MaxDcsCalls
    /\ \E dt \in DcsDts :
          /\ U32AddFits(args.quiet, dt)
          /\ LET currentTime == U32Add(args.millis, dt)
                 r == getDcsState(args, currentTime)
             IN  args' = [args EXCEPT !.millis = currentTime,
                                      !.dcsLastUpdateTime = r.dcsLastUpdateTime,
                                      !.prevDcsHeartbeat = r.prevDcsHeartbeat,
                                      !.ret = r.ret,
                                      !.changed = r.changed,
                                      !.quiet = IF r.changed THEN U32(0)
                                                ELSE U32Add(args.quiet, dt),
                                      !.calls = @ + 1]
    /\ DcsUnchanged

\* void onDcsUpdateCounterChange(unsigned int newValue)
OnDcsUpdateCounterChange ==
    /\ pc = "dcs"
    /\ \E newValue \in {0, 1} : args' = [args EXCEPT !.currDcsHeartbeat = newValue]
    /\ DcsUnchanged

\* void onAcftNameChange(char* newValue)
OnAcftNameChange ==
    /\ pc = "dcs"
    /\ \E newValue \in AcftNames :
          args' = [args EXCEPT !.acftName =
                      IF ~newValue.null /\ newValue.str # <<>>
                      THEN strncpyTerminated(newValue.str, 25) ELSE <<>>]
    /\ DcsUnchanged

\* void onIfeiRpmLChange(char* newValue)
OnIfeiRpmLChange ==
    /\ pc = "dcs"
    /\ \E newValue \in RpmStrings :
          args' = [args EXCEPT !.rpmLeft =
                      IF ~newValue.null /\ newValue.str # <<>> THEN atoi(newValue.str) ELSE 0]
    /\ DcsUnchanged

\* void onIfeiRpmRChange(char* newValue)
OnIfeiRpmRChange ==
    /\ pc = "dcs"
    /\ \E newValue \in RpmStrings :
          args' = [args EXCEPT !.rpmRight =
                      IF ~newValue.null /\ newValue.str # <<>> THEN atoi(newValue.str) ELSE 0]
    /\ DcsUnchanged

\* void onExtWowLeftChange(unsigned int newValue)
OnExtWowLeftChange ==
    /\ pc = "dcs"
    /\ \E newValue \in {0, 1} : args' = [args EXCEPT !.wowLeft = newValue]
    /\ DcsUnchanged

\* void onExtWowRightChange(unsigned int newValue)
OnExtWowRightChange ==
    /\ pc = "dcs"
    /\ \E newValue \in {0, 1} : args' = [args EXCEPT !.wowRight = newValue]
    /\ DcsUnchanged

NextDcsState ==
    \/ GetDcsState \/ OnDcsUpdateCounterChange \/ OnAcftNameChange
    \/ OnIfeiRpmLChange \/ OnIfeiRpmRChange \/ OnExtWowLeftChange \/ OnExtWowRightChange

SpecDcsState == InitDcsState /\ [][NextDcsState]_vars

-----------------------------------------------------------------------------
(* 2A13-BACKLIGHT_CONTROLLER/helpers/DcsRunningChecker.h.  args is the      *)
(* record of the header's statics, with millis, ret, changed, quiet and     *)
(* calls as above, and                                                      *)
(*   sent : whether a heartbeat callback has arrived since the last call    *)

DCS_TIMEOUT_MS == 10000

MaxRunningCalls == 3            \* calls of checkDcsRunning explored

\* checkDcsRunning() with the statics s, millis() returning now
checkDcsRunning(s, now) ==
    IF s.currDcsHeartbeat # s.prevDcsHeartbeat
    THEN [changed |-> TRUE, dcsLastUpdateTime |-> now,
          prevDcsHeartbeat |-> s.currDcsHeartbeat, ret |-> TRUE]
    ELSE [changed |-> FALSE, dcsLastUpdateTime |-> s.dcsLastUpdateTime,
          prevDcsHeartbeat |-> s.prevDcsHeartbeat,
          ret |-> ~U32Ge(U32Sub(now, s.dcsLastUpdateTime), DCS_TIMEOUT_MS)]

\* milliseconds between two readings of millis()
RunningDts == {1, 9999, 10000, 2147480000}

\* values of the DCS-BIOS update counter (address 0xfffe, mask 0x00ff)
HeartbeatValues == {0, 1, 255}

InitDcsRunning ==
    Parked("running", [a \in 0..11 |-> 255],
           [currDcsHeartbeat |-> 0, prevDcsHeartbeat |-> 0, dcsLastUpdateTime |-> U32(0),
            millis |-> U32(0), ret |-> TRUE, changed |-> FALSE, quiet |-> U32(0),
            calls |-> 0, sent |-> FALSE])

\* a call of checkDcsRunning(), dt milliseconds after the previous reading
CheckDcsRunning ==
    /\ pc = "running" /\ args.calls < MaxRunningCalls
    /\ \E dt \in RunningDts :
          /\ U32AddFits(args.quiet, dt)
          /\ LET now == U32Add(args.millis, dt)
                 r   == checkDcsRunning(args, now)
             IN  args' = [args EXCEPT !.millis = now,
                                      !.dcsLastUpdateTime = r.dcsLastUpdateTime,
                                      !.prevDcsHeartbeat = r.prevDcsHeartbeat,
                                      !.ret = r.ret,
                                      !.changed = r.changed,
                                      !.quiet = IF r.changed THEN U32(0)
                                                ELSE U32Add(args.quiet, dt),
                                      !.calls = @ + 1,
                                      !.sent = FALSE]
    /\ DcsUnchanged

\* void onDcsUpdateCounterChange(unsigned int newValue): DCS-BIOS calls it
\* when the counter it receives differs from the one it holds
HeartbeatCallback ==
    /\ pc = "running"
    /\ \E newValue \in HeartbeatValues \ {args.currDcsHeartbeat} :
          args' = [args EXCEPT !.currDcsHeartbeat = newValue, !.sent = TRUE]
    /\ DcsUnchanged

NextDcsRunning == CheckDcsRunning \/ HeartbeatCallback

SpecDcsRunning == InitDcsRunning /\ [][NextDcsRunning]_vars

-----------------------------------------------------------------------------
(* The gauge stepper of the ELEC panel (HornetStepper.h and the panel's     *)
(* sketch).  args is the HornetStepper object with the locals i and steps   *)
(* of startupTest(); pc is the position in setup() and loop().  Every       *)
(* position the program computes lies in 0..maxPosition, far inside the     *)
(* range of a 16-bit int.                                                   *)

\* HornetStepper eStepper(310, 5, 250, 1, ...), uStepper(310, 5, 240, 1, ...)
StepperParams ==
    { [stepsPerRevolution |-> 310, zeroPosition |-> 5, maxPosition |-> 250,
       directionForward |-> 1],
      [stepsPerRevolution |-> 310, zeroPosition |-> 5, maxPosition |-> 240,
       directionForward |-> 1] }

\* the values DCS-BIOS delivers to onVoltEChange / onVoltUChange
VoltValues == {0, 1000, 32768, 65535}

\* the object after its constructor: targetPosition(zero), currentPosition(zero)
InitStepper ==
    \E q \in StepperParams :
        Parked("findZero", [a \in 0..11 |-> 255],
               [zeroPosition |-> q.zeroPosition, maxPosition |-> q.maxPosition,
                targetPosition |-> q.zeroPosition, currentPosition |-> q.zeroPosition,
                i |-> 3, steps |-> 0])

\* mutant: the needle is moved two steps at a time
setNeedle_TwoSteps(s) ==
    IF s.targetPosition = s.currentPosition THEN s
    ELSE LET difference == s.targetPosition - s.currentPosition
         IN  IF difference > 0 THEN [s EXCEPT !.currentPosition = @ + 2]
             ELSE IF difference < 0 THEN [s EXCEPT !.currentPosition = @ - 2]
             ELSE s

\* void setNeedle(): the object after the call
setNeedle(s) ==
    IF s.targetPosition = s.currentPosition THEN s
    ELSE LET difference == s.targetPosition - s.currentPosition
         IN  IF difference > 0 THEN [s EXCEPT !.currentPosition = @ + 1]
             ELSE IF difference < 0 THEN [s EXCEPT !.currentPosition = @ - 1]
             ELSE s

\* void findZero(): the needle is run to the stop and back to the zero position
FindZero ==
    /\ pc = "findZero"
    /\ args' = [args EXCEPT !.currentPosition = args.zeroPosition,
                            !.targetPosition = args.zeroPosition]
    /\ pc' = "startupTest"
    /\ UNCHANGED bootI /\ BusUnchanged

\* startupTest(): int steps = (maxPosition - zeroPosition) / 3; int i = 3;
StartupTest ==
    /\ pc = "startupTest"
    /\ args' = [args EXCEPT !.steps = (args.maxPosition - args.zeroPosition) \div 3,
                            !.i = 3]
    /\ pc' = "for"
    /\ UNCHANGED bootI /\ BusUnchanged

\* for (...; i >= 0; ...) { targetPosition = zeroPosition + steps * i; ...
StartupFor ==
    /\ pc = "for"
    /\ IF args.i >= 0
       THEN /\ args' = [args EXCEPT !.targetPosition = args.zeroPosition + args.steps * args.i]
            /\ pc' = "while"
       ELSE /\ args' = args
            /\ pc' = "loop_stepper"
    /\ UNCHANGED bootI /\ BusUnchanged

\* while (abs(targetPosition - currentPosition) > 1) { setNeedle(); delay(10); }
\* and, when the loop is left, i--
StartupWhile ==
    /\ pc = "while"
    /\ IF Abs(args.targetPosition - args.currentPosition) > 1
       THEN /\ args' = setNeedle(args)
            /\ pc' = "while"
       ELSE /\ args' = [args EXCEPT !.i = @ - 1]
            /\ pc' = "for"
    /\ UNCHANGED bootI /\ BusUnchanged

\* loop(): eStepper.setNeedle();
LoopSetNeedle ==
    /\ pc = "loop_stepper"
    /\ args' = setNeedle(args)
    /\ UNCHANGED <<pc, bootI>> /\ BusUnchanged

\* loop(): DcsBios::loop() calls onVoltEChange(newValue), which calls
\* setTarget(unsigned int): targetPosition = map(target65535, 0, 65535, 0, maxPosition)
OnVoltChange ==
    /\ pc = "loop_stepper"
    /\ \E newValue \in VoltValues :
          args' = [args EXCEPT !.targetPosition = (newValue * args.maxPosition) \div 65535]
    /\ UNCHANGED <<pc, bootI>> /\ BusUnchanged

NextStepper ==
    FindZero \/ StartupTest \/ StartupFor \/ StartupWhile \/ LoopSetNeedle \/ OnVoltChange

\* setup() runs to its end, and loop() is entered again and again
SpecStepper ==
    /\ InitStepper /\ [][NextStepper]_vars
    /\ WF_vars(FindZero \/ StartupTest \/ StartupFor \/ StartupWhile)
    /\ WF_vars(LoopSetNeedle)

-----------------------------------------------------------------------------
(* Vocabulary of the properties *)

safeHoldMs == 2000
forceHoldMs == 6000

\* the normalized grip frame of the last cycle, and whether it shows the combo
Grip24Now == (lastGrip24[1] % 256) * 65536 + lastGrip24[2]
ComboNow == recenterComboPressed(Grip24Now)

\* elapsed hold time at the last millis() reading
Held == U32Sub(nowMs, recenterStartMs)

Calibration == <<rollCenter, pitchCenter, centersValid, eeprom>>

\* the record a load would find in mem
Stored(mem) == loadCentersFromEEPROM(mem, U32(0), U32(0))

\* |deg - center| <= 1.2 degrees, deg in Q21
PosErrWithin(deg, center) ==
    5 * Abs(wrapDiffDeg(deg, angle21ToDeg(U32Low21(center)))) <= 6 * MT_ANGLE_FULL_SCALE

BothCrcOk == roll.crc_ok /\ pitch.crc_ok

\* centers and record are those of the readings of the last cycle
CommittedFromReadings ==
    /\ rollCenter = U32(roll.angle21)
    /\ pitchCenter = U32(pitch.angle21)
    /\ Stored(eeprom) = [ok |-> TRUE, r |-> U32(roll.angle21), p |-> U32(pitch.angle21)]

CommitEvents == {"forced", "init", "safe_ok"}

-----------------------------------------------------------------------------
(* C1: a loop cycle that sees the combo released, or first pressed, or held *)
(* for less than safeHoldMs leaves the centers, the validity flag and the   *)
(* persisted record as they were; so a hold shorter than safeHoldMs,        *)
(* followed by the release, never mutates the calibration.                  *)
C1_ShortHoldKeepsCalibration ==
    [][(pc = "loop" /\ (~ComboNow' \/ ~recenterArmed \/ ~U32Ge(Held', safeHoldMs)))
          => UNCHANGED Calibration]_vars

\* the combo was released after a hold of 3998 ms of which the loop saw 1999,
\* with the stick away from the center
C1_Witness ==
    /\ event = "released" /\ Held = U32(3998)
    /\ BothCrcOk /\ rollCenter # U32(roll.angle21)

(* C2 as stated: in the first cycle of a continuous hold whose elapsed time *)
(* is >= forceHoldMs, with both CRCs valid, the centers become the cycle's  *)
(* readings and are persisted.                                              *)
C2_Original ==
    [][(/\ pc = "loop" /\ recenterArmed /\ ComboNow'
        /\ ~U32Ge(Held, forceHoldMs) /\ U32Ge(Held', forceHoldMs)
        /\ BothCrcOk')
          => CommittedFromReadings']_vars

(* C2 amended: the same, provided no earlier cycle of the hold has set      *)
(* recenterDoneThisHold (no safe commit has already completed the hold).    *)
C2_ForceCommits ==
    [][(/\ pc = "loop" /\ recenterArmed /\ ~recenterDoneThisHold /\ ComboNow'
        /\ ~U32Ge(Held, forceHoldMs) /\ U32Ge(Held', forceHoldMs)
        /\ BothCrcOk')
          => (CommittedFromReadings' /\ centersValid')]_vars

\* a force commit at exactly 6000 ms, after the safe attempt was refused
C2_Witness ==
    /\ event = "forced" /\ Held = U32(forceHoldMs) /\ recenterSafeTriedThisHold
    /\ CommittedFromReadings

(* C3: in the first cycle of a hold with safeHoldMs <= elapsed < forceHoldMs *)
(* a commit happens only if both position errors (against the center held   *)
(* before the cycle) are <= 1.2 degrees; when no commit happens the centers *)
(* and the record are unchanged, recenterArmed stays true and               *)
(* recenterDoneThisHold stays false.                                        *)
C3_SafeCommitOnlyWithinBound ==
    [][(/\ pc = "loop" /\ recenterArmed /\ ComboNow'
        /\ ~U32Ge(Held, safeHoldMs)
        /\ U32Ge(Held', safeHoldMs) /\ ~U32Ge(Held', forceHoldMs))
          => /\ (event' \in CommitEvents \/ Calibration' # Calibration)
                   => /\ PosErrWithin(rollDegPrev', rollCenter)
                      /\ PosErrWithin(pitchDegPrev', pitchCenter)
             /\ ~(PosErrWithin(rollDegPrev', rollCenter)
                  /\ PosErrWithin(pitchDegPrev', pitchCenter))
                   => /\ UNCHANGED <<rollCenter, pitchCenter, eeprom>>
                      /\ recenterArmed' /\ ~recenterDoneThisHold']_vars

\* a safe attempt at exactly 2000 ms refused for the position alone
C3_Witness ==
    /\ event = "safe_refused" /\ Held = U32(safeHoldMs) /\ BothCrcOk
    /\ recenterArmed /\ ~recenterDoneThisHold

(* C4 as stated: every write of the calibration record (in setup or in      *)
(* loop) and every change of a center happens in a step whose roll and      *)
(* pitch readings both have crcOk.                                          *)
C4_Original ==
    [][(\/ eeprom' # eeprom \/ rollCenter' # rollCenter \/ pitchCenter' # pitchCenter
        \/ event' \in CommitEvents \cup {"boot_init"})
          => BothCrcOk']_vars

(* C4 amended: in loop, every write of the record and every change of a     *)
(* center happens in a cycle whose two readings both have crcOk; in the     *)
(* bootstrap of setup a center changes only to a crcOk sample of its own    *)
(* axis (the record is then written whatever the CRC results were).         *)
C4_LoopCommitNeedsBothCrc ==
    [][/\ (pc = "loop" /\ (\/ eeprom' # eeprom \/ rollCenter' # rollCenter
                           \/ pitchCenter' # pitchCenter \/ event' \in CommitEvents))
             => BothCrcOk'
       /\ (pc = "boot" /\ rollCenter' # rollCenter)
             => (roll'.crc_ok /\ rollCenter' = U32(roll'.angle21))
       /\ (pc = "boot" /\ pitchCenter' # pitchCenter)
             => (pitch'.crc_ok /\ pitchCenter' = U32(pitch'.angle21))]_vars

\* a forced commit, taken although the safe attempt never ran
C4_Witness ==
    /\ event = "forced" /\ ~recenterSafeTriedThisHold /\ BothCrcOk
    /\ rollCenter = U32(roll.angle21) /\ pitchCenter = U32(pitch.angle21)

(* C5: in a loop cycle where exactly one axis fails its CRC, the degrees    *)
(* value of the failed axis is the one of the previous cycle and the other  *)
(* axis's value is the conversion of its new angle21.                       *)
C5_CrcFailureHoldsLastDegrees ==
    [][pc = "loop" =>
         /\ (~roll'.crc_ok /\ pitch'.crc_ok)
               => /\ rollDegPrev' = rollDegPrev
                  /\ pitchDegPrev' = angle21ToDeg(pitch'.angle21)
         /\ (roll'.crc_ok /\ ~pitch'.crc_ok)
               => /\ pitchDegPrev' = pitchDegPrev
                  /\ rollDegPrev' = angle21ToDeg(roll'.angle21)]_vars

\* the roll reading failed after a valid one, the pitch reading moved
C5_Witness ==
    /\ pc = "loop" /\ event \notin {"loaded", "boot_init"}
    /\ ~roll.crc_ok /\ pitch.crc_ok
    /\ rollDegPrev # 0 /\ rollDegPrev # angle21ToDeg(roll.angle21)
    /\ pitchDegPrev = angle21ToDeg(pitch.angle21)

(* C6: a loop cycle that sees the combo released ends with recenterArmed,   *)
(* recenterDoneThisHold and recenterSafeTriedThisHold all false; the cycle  *)
(* that then sees a new press starts a session of its own (armed, start =   *)
(* the cycle's millis(), nothing tried, nothing done).                      *)
C6_ReleaseResetsSession ==
    [][/\ (pc = "loop" /\ ~ComboNow')
             => (~recenterArmed' /\ ~recenterDoneThisHold'
                 /\ ~recenterSafeTriedThisHold')
       /\ (pc = "loop" /\ ~recenterArmed /\ ComboNow')
             => (recenterArmed' /\ recenterStartMs' = nowMs'
                 /\ ~recenterDoneThisHold' /\ ~recenterSafeTriedThisHold')]_vars

\* released after a hold in which a recenter had been done
C6_Witness ==
    /\ event = "released_done"
    /\ ~recenterArmed /\ ~recenterDoneThisHold /\ ~recenterSafeTriedThisHold

(* C7: while armed and not done, a cycle with elapsed >= forceHoldMs takes  *)
(* the force branch (the safe attempt flag is left as it was), sets         *)
(* recenterDoneThisHold whether or not it committed, and commits nothing on *)
(* a CRC failure; once done, no later cycle of the hold changes anything.   *)
C7_ForceHasPriorityAndIsNotRetried ==
    [][/\ (/\ pc = "loop" /\ recenterArmed /\ ~recenterDoneThisHold /\ ComboNow'
           /\ U32Ge(Held', forceHoldMs))
             => /\ recenterDoneThisHold'
                /\ recenterSafeTriedThisHold' = recenterSafeTriedThisHold
                /\ event' \in {"forced", "force_nocommit"}
                /\ ~BothCrcOk' => UNCHANGED Calibration
       /\ (pc = "loop" /\ recenterArmed /\ recenterDoneThisHold /\ ComboNow')
             => (UNCHANGED Calibration /\ recenterDoneThisHold')]_vars

\* a force attempt that met a CRC failure, before any safe attempt
C7_Witness ==
    /\ event = "force_nocommit" /\ ~recenterSafeTriedThisHold /\ recenterDoneThisHold
    /\ U32Ge(Held, forceHoldMs) /\ ~BothCrcOk

\* a safe attempt that the code refuses: first evaluation at the safe
\* threshold, calibration valid, position out of bound or a CRC failure
RefusedSafeAttempt ==
    /\ pc = "loop" /\ recenterArmed /\ ~recenterDoneThisHold
    /\ ~recenterSafeTriedThisHold /\ centersValid /\ ComboNow'
    /\ U32Ge(Held', safeHoldMs) /\ ~U32Ge(Held', forceHoldMs)
    /\ ~(/\ PosErrWithin(rollDegPrev', rollCenter)
         /\ PosErrWithin(pitchDegPrev', pitchCenter)
         /\ BothCrcOk')

(* C8 as stated: a refused safe recenter leaves the centers, the validity   *)
(* flag, the record and every field of the recenter session unchanged.      *)
C8_Original ==
    [][RefusedSafeAttempt
          => UNCHANGED <<rollCenter, pitchCenter, centersValid, eeprom, recenterArmed,
                         recenterStartMs, recenterDoneThisHold,
                         recenterSafeTriedThisHold>>]_vars

(* C8 amended: a refused safe recenter leaves the centers, the validity     *)
(* flag, the record, recenterArmed, recenterStartMs and                     *)
(* recenterDoneThisHold unchanged; recenterSafeTriedThisHold becomes true.  *)
C8_RefusalOnlyMarksTried ==
    [][RefusedSafeAttempt
          => /\ UNCHANGED <<rollCenter, pitchCenter, centersValid, eeprom,
                            recenterArmed, recenterStartMs, recenterDoneThisHold>>
             /\ recenterSafeTriedThisHold']_vars

\* a safe attempt refused because of a CRC failure
C8_Witness ==
    /\ event = "safe_refused" /\ ~BothCrcOk /\ recenterSafeTriedThisHold
    /\ ~recenterDoneThisHold /\ centersValid

(* C9: every commit in loop (and every change of a center or of the record  *)
(* there) leaves both centers equal to the cycle's two readings, the record *)
(* holding the magic and both of them, and centersValid true.               *)
C9_CommitWritesBothAxes ==
    [][(pc = "loop" /\ (\/ event' \in CommitEvents \/ eeprom' # eeprom
                        \/ rollCenter' # rollCenter \/ pitchCenter' # pitchCenter))
          => (CommittedFromReadings' /\ centersValid')]_vars

\* a safe commit that moved both centers
C9_Witness ==
    /\ event = "safe_ok" /\ CommittedFromReadings /\ centersValid
    /\ roll.angle21 = 2096152 /\ pitch.angle21 = 500000

(* C10: after saveCentersToEEPROM(r, p), for r and p below 2^21 and any     *)
(* prior content, loadCentersFromEEPROM reports valid and returns r and p.  *)
C10_SaveLoadRoundTrip ==
    pc = "loaded" =>
        (centersValid /\ rollCenter = U32(args[1]) /\ pitchCenter = U32(args[2]))

\* loaded back the largest roll center and a pitch center using the third byte
C10_Witness ==
    /\ pc = "loaded" /\ args = <<2097151, 65536>>
    /\ centersValid /\ rollCenter = <<31, 65535>> /\ pitchCenter = <<1, 0>>

-----------------------------------------------------------------------------
\* the stored bytes spell the sentinel 0x4A53434C, least significant byte first
StoredMagicIsSentinel ==
    eeprom[0] = 76 /\ eeprom[1] = 67 /\ eeprom[2] = 83 /\ eeprom[3] = 74

\* the four bytes at addr hold a value below 2^21
StoredBelow2p21(addr) == eeprom[addr + 3] = 0 /\ eeprom[addr + 2] < 32

(* C11: loadCentersFromEEPROM returns true if and only if the stored magic  *)
(* is the sentinel 0x4A53434C and both stored centers are below 2^21; for   *)
(* every other storage content it returns false.                            *)
C11_LoadValidIffMagicAndRange ==
    pc = "loaded" =>
        (centersValid <=> (StoredMagicIsSentinel /\ StoredBelow2p21(4) /\ StoredBelow2p21(8)))

\* the sentinel and a roll center of 2^21 - 1 are stored, the pitch center is
\* 2^21: the load has reported invalid
C11_Witness ==
    /\ pc = "loaded" /\ ~centersValid /\ StoredMagicIsSentinel
    /\ eepromReadU32(eeprom, 4) = <<31, 65535>> /\ eepromReadU32(eeprom, 8) = <<32, 0>>

-----------------------------------------------------------------------------
\* a center that fits in 21 bits
Fits21(center) == center[1] < 32

(* C12: when the stored record is invalid, setup polls each axis exactly 8  *)
(* times; each poll sets an axis's center to the polled angle21 if its CRC  *)
(* is valid and leaves it alone otherwise, so that the center ends as the   *)
(* last crcOk sample of the axis; on leaving setup the centers are kept,    *)
(* the persisted record is valid and holds them, and centersValid is true.  *)
C12_BootstrapTakesLastValidSample ==
    [][/\ (pc = "boot" /\ bootI' # bootI) =>
             /\ bootI < 8 /\ bootI' = bootI + 1
             /\ rollCenter' = (IF roll'.crc_ok THEN U32(roll'.angle21) ELSE rollCenter)
             /\ pitchCenter' = (IF pitch'.crc_ok THEN U32(pitch'.angle21) ELSE pitchCenter)
             /\ UNCHANGED <<eeprom, centersValid>>
       /\ (pc = "boot" /\ pc' # "boot") =>
             /\ bootI = 8 /\ ~centersValid /\ centersValid'
             /\ UNCHANGED <<rollCenter, pitchCenter>>
             /\ Stored(eeprom').ok
             /\ (Fits21(rollCenter) => Stored(eeprom').r = rollCenter)
             /\ (Fits21(pitchCenter) => Stored(eeprom').p = pitchCenter)
       /\ (pc = "setup" /\ pc' = "boot") => ~Stored(eeprom).ok
      ]_vars

\* setup is left with the roll center of an earlier poll, the last roll poll
\* having failed its CRC, and with the pitch center of the last poll
C12_Witness ==
    /\ pc = "loop" /\ event = "boot_init" /\ centersValid
    /\ ~roll.crc_ok /\ rollCenter = U32(30000)
    /\ pitch.crc_ok /\ pitchCenter = U32(508000) /\ pitch.angle21 = 508000
    /\ Stored(eeprom) = [ok |-> TRUE, r |-> U32(30000), p |-> U32(508000)]

-----------------------------------------------------------------------------
\* the angles the sensor of an axis delivers with a valid CRC
ValidSamples(frames) == { MT6835Read[rx].angle21 : rx \in {f \in frames : MT6835Read[f].crc_ok} }

(* C13: when the stored record is invalid at boot and an axis yields no     *)
(* crcOk sample in the bootstrap polls, that axis's center on leaving setup *)
(* is 0, and the record is persisted and marked valid regardless.  (A       *)
(* center that is none of the axis's valid samples was not sampled.)        *)
C13_Original ==
    (pc = "loop" /\ event = "boot_init") =>
        /\ (\A a \in ValidSamples(RollFrames) : rollCenter # U32(a)) => rollCenter = U32(0)
        /\ (\A a \in ValidSamples(PitchFrames) : pitchCenter # U32(a)) => pitchCenter = U32(0)
        /\ Stored(eeprom).ok /\ centersValid

-----------------------------------------------------------------------------
\* the step is a loop cycle that performs an operator-triggered recenter commit
RecenterCommitStep ==
    /\ pc = "loop" /\ recenterArmed /\ ComboNow'
    /\ U32Ge(Held', safeHoldMs) /\ BothCrcOk'
    /\ CommittedFromReadings'

-----------------------------------------------------------------------------
\* the cycle belongs to the first hold after boot: a hold that follows a
\* commit cannot reach its safe threshold before 3 * 1999 + 2000 ms
FirstHoldAfterBoot == ~U32Ge(nowMs', 3 * 1999 + safeHoldMs)

(* C15: after a boot with an invalid stored calibration, the cycle in which *)
(* the hold reaches safeHoldMs (and not yet forceHoldMs) commits the        *)
(* current readings without any position-error check and sets doneThisHold. *)
C15_Original ==
    [][(/\ pc = "loop" /\ FirstHoldAfterBoot
        /\ recenterArmed /\ ~recenterDoneThisHold /\ ~recenterSafeTriedThisHold
        /\ ComboNow' /\ U32Ge(Held', safeHoldMs) /\ ~U32Ge(Held', forceHoldMs)
        /\ BothCrcOk')
          => (CommittedFromReadings' /\ recenterDoneThisHold')]_vars

-----------------------------------------------------------------------------
\* the real time for which the combo has been held at the end of the step
RealHeld == args'[1] - args'[2]

(* C16: the elapsed hold time is (now - recenterStartMs) mod 2^32, so when  *)
(* the millisecond counter overflows during a hold, the elapsed time is     *)
(* still the real hold time and the thresholds fire on it: nothing happens  *)
(* before 2000 ms, the safe attempt is made in the first cycle at or after  *)
(* 2000 ms, and the force branch is taken in the first cycle at or after    *)
(* 6000 ms.                                                                 *)
C16_ThresholdsAcrossOverflow ==
    [][(recenterArmed /\ ComboNow') =>
          /\ Held' = U32(RealHeld)
          /\ ~recenterDoneThisHold =>
                /\ RealHeld < safeHoldMs =>
                      UNCHANGED <<Calibration, recenterDoneThisHold,
                                  recenterSafeTriedThisHold>>
                /\ (RealHeld >= safeHoldMs /\ RealHeld < forceHoldMs) =>
                      recenterSafeTriedThisHold'
                /\ RealHeld >= forceHoldMs =>
                      /\ recenterDoneThisHold'
                      /\ BothCrcOk' => CommittedFromReadings'
      ]_vars

\* a forced commit after 6000 ms of hold, armed before the counter overflowed
\* and committed after it
C16_Witness ==
    /\ event = "forced" /\ args[1] - args[2] = 6000
    /\ recenterStartMs[1] = 65535 /\ nowMs[1] = 0
    /\ CommittedFromReadings

-----------------------------------------------------------------------------
\* the state of button b that the last setButton call for b carried
LastSentButton(b) == updateButtonsFromGrip(Grip24Now)[b]

\* some cycle has sent the buttons already
ButtonsSentBefore == lastGrip24[1] < 256

(* C17: in every loop cycle a value is emitted at the HID boundary only     *)
(* where it differs from its cached last-emitted value: setXAxis iff        *)
(* x # lastX, setYAxis iff y # lastY, setHatSwitch iff hat # lastHat, and   *)
(* a button's state is sent only if it differs from the state last sent     *)
(* for that button.                                                         *)
C17_Original ==
    [][pc = "loop" =>
          /\ (args'.setXAxis # <<>>) <=> (lastX' # lastX)
          /\ (args'.setYAxis # <<>>) <=> (lastY' # lastY)
          /\ (args'.setHatSwitch # <<>>) <=> (lastHat' # lastHat)
          /\ ButtonsSentBefore =>
                \A b \in DOMAIN args'.setButton :
                    args'.setButton[b] # LastSentButton(b)
      ]_vars

-----------------------------------------------------------------------------
\* bit i of a natural, as 0 or 1
BitOf(v, i) == (v \div Pow2(i)) % 2

\* the hat value for <<up, down, left, right>>, each 0 or 1
HatOfTrim ==
    ( <<0, 0, 0, 0>> :> -1  ) @@
    ( <<1, 0, 0, 0>> :> 0   ) @@ ( <<0, 0, 0, 1>> :> 90  ) @@
    ( <<0, 1, 0, 0>> :> 180 ) @@ ( <<0, 0, 1, 0>> :> 270 ) @@
    ( <<1, 0, 0, 1>> :> 45  ) @@ ( <<1, 0, 1, 0>> :> 315 ) @@
    ( <<0, 1, 0, 1>> :> 135 ) @@ ( <<0, 1, 1, 0>> :> 225 ) @@
    \* several directions at once: the first diagonal in the order up+right,
    \* up+left, down+right, down+left; without a diagonal the first of
    \* up, right, down, left
    ( <<1, 1, 0, 0>> :> 0   ) @@ ( <<0, 0, 1, 1>> :> 90  ) @@
    ( <<1, 0, 1, 1>> :> 45  ) @@ ( <<1, 1, 0, 1>> :> 45  ) @@
    ( <<1, 1, 1, 0>> :> 315 ) @@ ( <<0, 1, 1, 1>> :> 135 ) @@
    ( <<1, 1, 1, 1>> :> 45  )

(* C18: for each of the 16 combinations of the four trim bits,              *)
(* computeHatFromTrim returns -1 when none is asserted, the diagonal        *)
(* 45/315/135/225 when up+right / up+left / down+right / down+left are      *)
(* asserted (diagonals before single directions), otherwise 0/90/180/270    *)
(* for up/right/down/left; the result is one of the nine hat values; up is  *)
(* bit 15 and down is bit 13 of the normalized frame, left bit 12, right    *)
(* bit 14.                                                                  *)
C18_HatFromTrim ==
    pc = "decoded" =>
        /\ lastHat = HatOfTrim[<<BitOf(Grip24Now, 15), BitOf(Grip24Now, 13),
                                 BitOf(Grip24Now, 12), BitOf(Grip24Now, 14)>>]
        /\ lastHat \in {-1, 0, 45, 90, 135, 180, 225, 270, 315}

\* up (bit 15), down (bit 13) and right (bit 14) asserted, left not: hat 45
C18_Witness ==
    /\ pc = "decoded" /\ lastHat = 45
    /\ BitOf(Grip24Now, 15) = 1 /\ BitOf(Grip24Now, 13) = 1
    /\ BitOf(Grip24Now, 14) = 1 /\ BitOf(Grip24Now, 12) = 0

-----------------------------------------------------------------------------
\* the frame bit of each of the 19 buttons, by HID button index
ButtonBit ==
    <<23, 20, 19, 18, 17, 16,       \* triggers, release, NWS, paddle, recce
      11, 10, 9, 8,                 \* sensor control forward, right, backward, left
      7, 6, 5,                      \* caster up, switch, down
      4,                            \* sensor control center
      3, 2, 1, 0, 22>>              \* weapon select forward .. left, center

\* the raw frame of the decoded state, as a 24-bit value
RawGrip24 == args.raw[1] * 65536 + args.raw[2] * 256 + args.raw[3]

(* C19: for every raw 3-byte grip frame, bit i of the normalized frame is   *)
(* the complement of raw bit i for i in 0..23, and it has no bit above 23;  *)
(* each of the 19 buttons is sent with the value of its one mapped bit of   *)
(* the normalized frame; raw 0xFFFFFF gives all 19 buttons false, hat -1    *)
(* and the combo not pressed.                                               *)
C19_GripDecode ==
    pc = "decoded" =>
        /\ lastGrip24[1] < 256
        /\ \A i \in 0..23 : BitOf(Grip24Now, i) = 1 - BitOf(RawGrip24, i)
        /\ DOMAIN args.out.setButton = 0..18
        /\ \A b \in 0..18 :
              args.out.setButton[b] = (BitOf(Grip24Now, ButtonBit[b + 1]) = 1)
        /\ args.raw = <<255, 255, 255>> =>
              /\ \A b \in 0..18 : args.out.setButton[b] = FALSE
              /\ lastHat = -1 /\ args.out.setHatSwitch = <<-1>>
              /\ ~args.combo

\* only raw bit 18 is low: of the 19 buttons only the paddle (button 3) is on
C19_Witness ==
    /\ pc = "decoded" /\ args.raw = <<251, 255, 255>>
    /\ Grip24Now = 262144
    /\ args.out.setButton[3] /\ ~args.out.setButton[0] /\ ~args.combo

-----------------------------------------------------------------------------
(* C20: for all 21-bit encoder values a, b converted to degrees,            *)
(* wrapDiffDeg(a, b) lies in the half-open interval (-180, 180], so it is   *)
(* never -180, and wrapDiffDeg(a, a) = 0.                                   *)
C20_Original ==
    pc = "wrapped" =>
        /\ args[3] > -Deg180 /\ args[3] <= Deg180
        /\ args[1] = args[2] => args[3] = 0

-----------------------------------------------------------------------------
\* x <= y on binary32 pairs
F32Le(x, y) == ~F32Lt(y, x)

\* the inputs of the mapped state satisfy 0 <= deadzone < range, range > 0
DeadzoneBelow(range) ==
    /\ F32Lt(F32Zero, range)
    /\ F32Le(F32Zero, args.deadzoneDeg)
    /\ F32Lt(args.deadzoneDeg, range)

(* C21: for every halfRange > 0 and deadzone with 0 <= deadzone <           *)
(* halfRange, mapDegToHID_Symmetric maps 0 to 0, halfRange to 32767,        *)
(* -halfRange to -32767, every delta with |delta| <= deadzone to exactly 0, *)
(* and every delta beyond +/-halfRange to the value of the extreme.         *)
C21_SymmetricEndpoints ==
    (pc = "mapped" /\ DeadzoneBelow(args.rangePosDeg)) =>
        /\ args.deltaDeg = F32Zero => args.sym = 0
        /\ F32Le(F32Abs(args.deltaDeg), args.deadzoneDeg) => args.sym = 0
        /\ F32Le(args.rangePosDeg, args.deltaDeg) => args.sym = 32767
        /\ F32Le(args.deltaDeg, F32Neg(args.rangePosDeg)) => args.sym = -32767

\* a delta of -20 degrees against a half range of 15.5 and the deadzone 0.3f
C21_Witness ==
    /\ pc = "mapped" /\ DeadzoneBelow(args.rangePosDeg)
    /\ args.deltaDeg = F32Make(-20, 0) /\ args.rangePosDeg = ROLL_HALF_DEG
    /\ args.deadzoneDeg = DEADZONE_ROLL_DEG /\ args.sym = -32767

-----------------------------------------------------------------------------
\* the range the asymmetric mapper uses for the delta of the mapped state
SideRange == IF F32Lt(args.deltaDeg, F32Zero) THEN args.rangeNegDeg ELSE args.rangePosDeg

\* out is not zero and has the sign of the delta of the mapped state
SignOfDelta(out) == IF F32Lt(args.deltaDeg, F32Zero) THEN out < 0 ELSE out > 0

(* C22: the output 0 is reserved for the deadzone band: for deadzone <      *)
(* range, every delta with |delta| > deadzone maps to a nonzero output with *)
(* the sign of delta, in the symmetric and in the asymmetric mapper.        *)
C22_Original ==
    pc = "mapped" =>
        /\ (DeadzoneBelow(args.rangePosDeg) /\ F32Lt(args.deadzoneDeg, F32Abs(args.deltaDeg)))
              => SignOfDelta(args.sym)
        /\ (DeadzoneBelow(SideRange) /\ F32Lt(args.deadzoneDeg, F32Abs(args.deltaDeg)))
              => SignOfDelta(args.asym)

-----------------------------------------------------------------------------
\* x is a multiple of 2^-25 below 32, so that x * 2^25 is an integer below 2^30
Q25Exact(x) ==
    \/ x[1] = 0
    \/ x[2] <= -19 /\ x[2] >= -25
    \/ x[2] < -25 /\ x[2] >= -48 /\ x[1] % Pow2(-25 - x[2]) = 0

\* x * 2^25 for such an x
Q25(x) ==
    IF x[1] = 0 THEN 0
    ELSE IF x[2] >= -25 THEN x[1] * Pow2(x[2] + 25)
    ELSE x[1] \div Pow2(-25 - x[2])

\* out is an integer nearest to 32767 * n / d, for 0 <= n <= d < 2^30 and
\* 0 <= out <= 32767: 2 * |out * d - 32767 * n| <= d, the difference being
\* formed in limbs of 15 bits
NearestTo(out, n, d) ==
    LET h  == out * (d \div 32768) - 32767 * (n \div 32768)
        l  == out * (d % 32768) - 32767 * (n % 32768)
        lq == (l - (l % 32768)) \div 32768
        hh == h + lq
        e  == hh * 32768 + (l % 32768)
    IN  /\ hh >= -16385 /\ hh <= 16385
        /\ 2 * Abs(e) <= d

\* |delta| after the clamp to the half range, times 2^25
ClampedAbsQ25 ==
    IF F32Lt(args.rangePosDeg, F32Abs(args.deltaDeg)) THEN Q25(args.rangePosDeg)
    ELSE Q25(F32Abs(args.deltaDeg))

(* C23: outside the deadzone the output of the symmetric mapper equals      *)
(* round-to-nearest of signedScaled * 32767, with signedScaled =            *)
(* sign(delta) * (|delta| - deadzone) / (range - deadzone), clamped to      *)
(* [-32767, 32767]; stated for the inputs that are multiples of 2^-25,      *)
(* where the quotient is formed exactly.                                    *)
C23_Original ==
    ( /\ pc = "mapped" /\ DeadzoneBelow(args.rangePosDeg)
      /\ F32Lt(args.deadzoneDeg, F32Abs(args.deltaDeg))
      /\ Q25Exact(args.deltaDeg) /\ Q25Exact(args.rangePosDeg) /\ Q25Exact(args.deadzoneDeg) )
    => /\ args.sym \in -32767..32767
       /\ F32Lt(args.deltaDeg, F32Zero) => args.sym <= 0
       /\ F32Lt(F32Zero, args.deltaDeg) => args.sym >= 0
       /\ NearestTo(Abs(args.sym), ClampedAbsQ25 - Q25(args.deadzoneDeg),
                    Q25(args.rangePosDeg) - Q25(args.deadzoneDeg))

-----------------------------------------------------------------------------
\* 0.001f
F32Milli == <<8589935, -33>>

\* the result of the symmetric mapper with the range of the delta's side
SymOfSide == IF F32Lt(args.deltaDeg, F32Zero) THEN args.symNeg ELSE args.sym

(* C24: for every delta, deadzone and range R >= 0, including ranges at or  *)
(* near zero, mapDegToHID_Asymmetric(delta, R, R, deadzone) =               *)
(* mapDegToHID_Symmetric(delta, R, deadzone); with different ranges each    *)
(* side uses its own range for the clamp, the deadzone clamp and the        *)
(* rescale denominator, and a side whose range is below 0.001 gives 0.      *)
C24_Original ==
    pc = "mapped" =>
        /\ args.rangePosDeg = args.rangeNegDeg => args.asym = args.sym
        /\ F32Lt(SideRange, F32Milli) => args.asym = 0
        /\ ~F32Lt(SideRange, F32Milli) => args.asym = SymOfSide

-----------------------------------------------------------------------------
(* C25: in every reachable state, hence in every state after the first loop *)
(* cycle, both axis values held at the HID boundary (lastX, lastY) are in   *)
(* [-32767, 32767], for every sequence of encoder readings, CRC outcomes    *)
(* and centers.                                                             *)
C25_AxesInRange ==
    /\ lastX \in -32767..32767
    /\ lastY \in -32767..32767

\* loop cycles have run: pitch is clamped at full aft travel while roll is
\* part of the way to the left
C25_Witness ==
    /\ pc = "loop" /\ event # "reset"
    /\ lastY = -32767
    /\ lastX < 0 /\ lastX > -32767

-----------------------------------------------------------------------------
(* C26: for every 24-bit input d and every bit position i in 0..23,         *)
(* mt_crc8_24bits_msb(d) differs from mt_crc8_24bits_msb(d with bit i       *)
(* flipped); hence a received frame whose angle/status bits differ in       *)
(* exactly one bit from what the CRC byte was computed over has crcOk false.*)
C26_SingleBitFlipDetected ==
    pc = "crc_read" =>
        /\ args.crc # args.crcFlipped
        /\ args.res.angle21 * 8 + args.res.status3 # args.data24
        /\ ~args.res.crc_ok

\* the top bit of the angle flipped in an all-zero frame
C26_Witness ==
    /\ pc = "crc_read" /\ args.data24 = 0 /\ args.i = 23
    /\ args.res.angle21 = 1048576 /\ args.crc = 0 /\ ~args.res.crc_ok

-----------------------------------------------------------------------------
\* the chip-select lines that are asserted low
CsAsserted == { l \in CsLines : args.cs[l] = "LOW" }

(* C27: at every point of execution at most one of the three chip-select    *)
(* lines is asserted low; a line is low only while its own transaction      *)
(* holds the bus (asserted after the bus is acquired, released before the   *)
(* bus is released); between transactions all three lines are high.         *)
C27_Original ==
    /\ Cardinality(CsAsserted) <= 1
    /\ \A l \in CsAsserted : args.owner = SettingsOf(l) /\ args.dev = l
    /\ (pc \in {"bus_boot", "bus_loop"} /\ args.owner = "none")
          => \A l \in CsLines : args.cs[l] = "HIGH"

-----------------------------------------------------------------------------
\* at least one loop cycle has run: the last event is one of loop()
CycleHasRun == pc = "loop" /\ event \notin {"reset", "loaded", "boot_sample", "boot_init"}

\* the recenter outcome of the loop cycle that receives the frames rf, pf, gf
\* after dt milliseconds, computed from the current state
CycleRecenter(rf, pf, gf, dt) ==
    LET r          == MT6835Read[rf]
        p          == MT6835Read[pf]
        rollWrap   == wrapDiffDeg(ResolveDeg(r, rollDegPrev), angle21ToDeg(U32Low21(rollCenter)))
        pitchWrap  == wrapDiffDeg(ResolveDeg(p, pitchDegPrev), angle21ToDeg(U32Low21(pitchCenter)))
    IN  Recenter(r, p, IF INVERT_ROLL THEN -rollWrap ELSE rollWrap,
                 IF INVERT_PITCH THEN -pitchWrap ELSE pitchWrap,
                 recenterComboPressed(16777215 - readGrip24(gf)), U32Add(nowMs, dt))

\* the x, y and hat values of the cycle
CycleX(rf) == MapRollToHID[<<ResolveDeg(MT6835Read[rf], rollDegPrev), U32Low21(rollCenter)>>]
CycleY(pf) == MapPitchToHID[<<ResolveDeg(MT6835Read[pf], pitchDegPrev), U32Low21(pitchCenter)>>]
CycleHat(gf) == computeHatFromTrim(16777215 - readGrip24(gf))

\* how often the bodies of the two while loops of wrapDiffDeg(aDeg, bDeg) run
WrapIters(aDeg, bDeg) ==
    LET d == RoundF32(aDeg - bDeg)
    IN  <<wrapDownIters(d), wrapUpIters(wrapDown(d))>>

\* tabulated over the degrees and centers that can occur
RollWrapIters ==
    [k \in AxisDegs(RollFrames) \X AxisCenters(RollFrames, EEPROM_ADDR_ROLL) |->
        WrapIters(k[1], angle21ToDeg(k[2]))] @@ <<>>

PitchWrapIters ==
    [k \in AxisDegs(PitchFrames) \X AxisCenters(PitchFrames, EEPROM_ADDR_PITCH) |->
        WrapIters(k[1], angle21ToDeg(k[2]))] @@ <<>>

AtMostOnce(iters) == iters[1] <= 1 /\ iters[2] <= 1

(* C28: every loop cycle terminates and computes an x, y and hat value: in  *)
(* every state in which loop() is about to run, whatever the stored record, *)
(* the centers and the recenter state, for every combination of frames (CRC *)
(* good or bad) and elapsed time the recenter logic takes a branch of       *)
(* loop() and x, y and hat are values of their ranges; the while loops of   *)
(* wrapDiffDeg run at most once for the degrees of that cycle; and once a   *)
(* cycle has run the held x, y and hat are such values.                     *)
C28_LoopCycleTotal ==
    pc = "loop" =>
        /\ \A rf \in RollFrames, pf \in PitchFrames, gf \in GripFrames, dt \in LoopDts :
              CycleRecenter(rf, pf, gf, dt).event
                  \notin {"reset", "loaded", "boot_sample", "boot_init"}
        /\ \A rf \in RollFrames :
              /\ CycleX(rf) \in HID_MIN..HID_MAX
              /\ AtMostOnce(RollWrapIters[<<ResolveDeg(MT6835Read[rf], rollDegPrev),
                                            U32Low21(rollCenter)>>])
        /\ \A pf \in PitchFrames :
              /\ CycleY(pf) \in HID_MIN..HID_MAX
              /\ AtMostOnce(PitchWrapIters[<<ResolveDeg(MT6835Read[pf], pitchDegPrev),
                                             U32Low21(pitchCenter)>>])
        /\ \A gf \in GripFrames :
              CycleHat(gf) \in {-1, 0, 45, 90, 135, 180, 225, 270, 315}
        /\ CycleHasRun =>
              /\ lastX \in HID_MIN..HID_MAX /\ lastY \in HID_MIN..HID_MAX
              /\ lastHat \in {-1, 0, 45, 90, 135, 180, 225, 270, 315}

\* a cycle has run with a CRC failure on roll, during a hold of the combo,
\* the roll reading 359.66 degrees below the center's so that the second
\* loop of wrapDiffDeg runs
C28_Witness ==
    /\ CycleHasRun
    /\ ~roll.crc_ok /\ recenterArmed
    /\ RollWrapIters[<<angle21ToDeg(1000), 2096152>>] = <<0, 1>>
    /\ rollDegPrev = angle21ToDeg(1000) /\ U32Low21(rollCenter) = 2096152

-----------------------------------------------------------------------------
\* the step is a call of getDcsState / checkDcsRunning
IsCall == args'.calls = args.calls + 1

-----------------------------------------------------------------------------
(* C30: for any sequence of heartbeat callbacks and checkDcsRunning calls,  *)
(* a call returns false iff the heartbeat counter equals the value seen at  *)
(* the previous call and at least 10000 ms have passed since the last call  *)
(* that observed a change (across the overflow of millis()); and it returns *)
(* true as long as DCS keeps sending data, i.e. whenever a heartbeat        *)
(* callback has arrived since the previous call.                            *)
C30_Original ==
    [][IsCall =>
        /\ (args'.ret = FALSE) <=>
              (args.currDcsHeartbeat = args.prevDcsHeartbeat /\ U32Ge(args'.quiet, 10000))
        /\ args.sent => args'.ret = TRUE
    ]_vars

-----------------------------------------------------------------------------
(* C31: recenterStartMs is written only in the first cycle of a hold (combo *)
(* pressed while not armed), where it takes the cycle's millis(), and is    *)
(* unchanged in every later cycle of the same hold; the arming cycle        *)
(* evaluates no threshold, so it commits nothing, whatever the time since   *)
(* the previous start.                                                      *)
C31_StartWrittenOnlyWhenArming ==
    [][/\ (pc = "loop" /\ recenterStartMs' # recenterStartMs)
             => (~recenterArmed /\ ComboNow')
       /\ (pc = "loop" /\ recenterArmed /\ ComboNow')
             => recenterStartMs' = recenterStartMs
       /\ (pc = "loop" /\ ~recenterArmed /\ ComboNow')
             => /\ recenterStartMs' = nowMs'
                /\ event' = "arm"
                /\ UNCHANGED Calibration
                /\ ~recenterDoneThisHold' /\ ~recenterSafeTriedThisHold'
       /\ pc # "loop" => recenterStartMs' = recenterStartMs
      ]_vars

\* the combo is first seen pressed 6000 ms after boot with both CRCs valid and
\* the stick away from the center: the cycle only arms
C31_Witness ==
    /\ event = "arm" /\ nowMs = U32(forceHoldMs) /\ recenterStartMs = U32(forceHoldMs)
    /\ BothCrcOk /\ rollCenter # U32(roll.angle21)
    /\ ~recenterDoneThisHold /\ ~recenterSafeTriedThisHold

-----------------------------------------------------------------------------
\* the hold has had its safe attempt refused and has not ended since
AfterRefusal == event \in {"safe_refused", "tried"}

(* C32: within one continuous hold the safe check is evaluated at most      *)
(* once: after a refused safe attempt, a later cycle of the same hold with  *)
(* elapsed below forceHoldMs changes neither the calibration nor the        *)
(* session, even with the stick back within 1.2 degrees and both CRCs       *)
(* valid; a change of the calibration later in the hold is a force commit.  *)
C32_SafeCheckedOncePerHold ==
    [][/\ (pc = "loop" /\ AfterRefusal /\ ComboNow' /\ ~U32Ge(Held', forceHoldMs))
             => /\ event' = "tried"
                /\ UNCHANGED <<Calibration, recenterArmed, recenterStartMs,
                               recenterDoneThisHold, recenterSafeTriedThisHold>>
       /\ (pc = "loop" /\ AfterRefusal /\ ComboNow' /\ Calibration' # Calibration)
             => (U32Ge(Held', forceHoldMs) /\ event' = "forced")
       /\ (pc = "loop" /\ AfterRefusal)
             => (recenterArmed /\ recenterSafeTriedThisHold /\ ~recenterDoneThisHold)
      ]_vars

\* 1999 ms after a refused safe attempt the stick is back within the bound,
\* both CRCs are valid, and the centers are still not the readings
C32_Witness ==
    /\ event = "tried" /\ Held = U32(3999) /\ BothCrcOk
    /\ PosErrWithin(rollDegPrev, rollCenter) /\ PosErrWithin(pitchDegPrev, pitchCenter)
    /\ rollCenter # U32(roll.angle21)
    /\ recenterSafeTriedThisHold /\ ~recenterDoneThisHold

-----------------------------------------------------------------------------
\* CRC-8 with polynomial 0x07 and initial value 0, computed byte by byte:
\* eight shifts of the register after each byte is XORed into it
RECURSIVE Crc8Shift(_, _)
Crc8Shift(crc, n) ==
    IF n = 0 THEN crc
    ELSE Crc8Shift(IF crc >= 128 THEN BitXor((crc * 2) % 256, 7, 8) ELSE crc * 2, n - 1)

Crc8OfBytes(b0, b1, b2) ==
    Crc8Shift(BitXor(Crc8Shift(BitXor(Crc8Shift(b0, 8), b1, 8), 8), b2, 8), 8)

(* C33: for every four received bytes b0..b3, readMT6835_burstAngle yields  *)
(* angle21 = b0*2^13 + b1*2^5 + (b2 >> 3), which is below 2^21, status3 =   *)
(* b2 mod 8, and crcOk = (the CRC-8 of the 24-bit word (angle21 << 3) |     *)
(* status3 equals b3); that word is the concatenation b0:b1:b2.             *)
C33_BurstDecode ==
    pc = "burst_read" =>
        LET b0 == args.rx[1]
            b1 == args.rx[2]
            b2 == args.rx[3]
            b3 == args.rx[4]
            word == args.res.angle21 * 8 + args.res.status3
        IN  /\ args.res.angle21 = b0 * 8192 + b1 * 32 + (b2 \div 8)
            /\ args.res.angle21 < 2097152
            /\ args.res.status3 = b2 % 8
            /\ word = b0 * 65536 + b1 * 256 + b2
            /\ args.res.crc_ok <=> (Crc8OfBytes(b0, b1, b2) = b3)
            /\ args.res.crc_ok <=> (mt_crc8_24bits_msb(word) = b3)

\* all data bits set and the matching CRC byte: the largest angle, status 7
C33_Witness ==
    /\ pc = "burst_read" /\ args.rx[1] = 255 /\ args.rx[2] = 255 /\ args.rx[3] = 255
    /\ args.res.angle21 = 2097151 /\ args.res.status3 = 7 /\ args.res.crc_ok

-----------------------------------------------------------------------------
\* the step changes a center or the persisted record, or reports a commit
CommitStep ==
    \/ event' \in CommitEvents
    \/ <<rollCenter, pitchCenter, eeprom>>' # <<rollCenter, pitchCenter, eeprom>>

(* C34: in any continuous hold of the combo at most one commit occurs: a    *)
(* commit happens only in an armed hold that is not yet done and marks it   *)
(* done; the mark stays as long as the combo is held, and a cycle of a done *)
(* hold changes neither the centers nor the persisted record, whatever the  *)
(* readings and however long the hold.                                      *)
C34_AtMostOneCommitPerHold ==
    [][/\ (pc = "loop" /\ CommitStep)
             => /\ recenterArmed /\ ~recenterDoneThisHold /\ ComboNow'
                /\ recenterArmed' /\ recenterDoneThisHold'
       /\ (pc = "loop" /\ recenterDoneThisHold /\ ComboNow')
             => /\ recenterArmed' /\ recenterDoneThisHold' /\ event' = "done"
                /\ UNCHANGED <<rollCenter, pitchCenter, centersValid, eeprom>>
       /\ recenterDoneThisHold => recenterArmed
      ]_vars

\* 1999 ms after a force commit that moved the roll center to 30000, the
\* combo still held, the stick elsewhere and both CRCs valid: nothing changed
C34_Witness ==
    /\ event = "done" /\ recenterDoneThisHold /\ ~recenterSafeTriedThisHold
    /\ args[1] - args[2] >= forceHoldMs + 1999
    /\ BothCrcOk /\ roll.angle21 = 1000 /\ rollCenter = U32(30000)
    /\ Stored(eeprom).r = U32(30000)

-----------------------------------------------------------------------------
(* C35: centersValid is true in every state reachable after setup returns,  *)
(* for every initial storage content and every CRC outcome of the           *)
(* bootstrap; so the "calibration invalid -> forced init" branch of the     *)
(* safe threshold in loop is never taken.                                   *)
C35_CentersValidAfterSetup ==
    pc = "loop" => (centersValid /\ event \notin {"init", "init_nocommit"})

\* the stored record was invalid at boot (the record now holds the bootstrap
\* samples) and the first hold has reached the safe threshold with both CRCs
\* valid: the position check ran and refused
C35_Witness ==
    /\ pc = "loop" /\ event = "safe_refused" /\ nowMs = U32(3999) /\ BothCrcOk
    /\ Stored(eeprom) = [ok |-> TRUE, r |-> U32(30000), p |-> U32(508000)]
    /\ centersValid

-----------------------------------------------------------------------------
(* C36: after setup returns and at the end of every loop cycle, the         *)
(* persisted record is valid and its roll and pitch centers equal the       *)
(* in-memory rollCenter and pitchCenter, which are themselves below 2^21;   *)
(* this for every initial storage content.                                  *)
C36_Original ==
    pc = "loop" =>
        /\ Fits21(rollCenter) /\ Fits21(pitchCenter)
        /\ Stored(eeprom) = [ok |-> TRUE, r |-> rollCenter, p |-> pitchCenter]

-----------------------------------------------------------------------------
(* C37: in the cycle that commits a new center, the axis values are mapped  *)
(* from the deltas against the centers held before the commit; in the next  *)
(* cycle, if both readings have crcOk and the same angle21 as in the commit *)
(* cycle, both axis outputs are 0.                                          *)
C37_CommitCycleMapsOldCenter ==
    [][/\ (pc = "loop" /\ event' \in CommitEvents)
             => /\ lastX' = MapRollToHID[<<angle21ToDeg(roll'.angle21),
                                           U32Low21(rollCenter)>>]
                /\ lastY' = MapPitchToHID[<<angle21ToDeg(pitch'.angle21),
                                            U32Low21(pitchCenter)>>]
       /\ (/\ pc = "loop" /\ event \in CommitEvents /\ BothCrcOk'
           /\ roll'.angle21 = roll.angle21 /\ pitch'.angle21 = pitch.angle21)
             => (lastX' = 0 /\ lastY' = 0)
      ]_vars

\* a force commit with the stick 4.98 degrees from the old roll center: the
\* centers are the readings, the roll axis still shows the old deflection
C37_Witness ==
    /\ event = "forced" /\ CommittedFromReadings
    /\ roll.angle21 = 30000 /\ lastX > 0 /\ lastY = 0

-----------------------------------------------------------------------------
\* angle and status bits a CRC-failed reading may carry
NoiseAngles == {1000, 2097151}
NoiseStatus == {0, 7}

\* the readings that differ from r at most in the angle and status bits of a
\* CRC-failed reading
Variants(r) ==
    IF r.crc_ok THEN {r}
    ELSE {r} \cup {[angle21 |-> a, status3 |-> s, crc_ok |-> FALSE] :
                      a \in NoiseAngles, s \in NoiseStatus}

\* rollDelta and pitchDelta as loop() computes them from the degrees and the
\* center of the axis, tabulated over the values that can occur
RollDeltaOf ==
    [k \in AxisDegs(RollFrames) \X AxisCenters(RollFrames, EEPROM_ADDR_ROLL) |->
        LET d == wrapDiffDeg(k[1], angle21ToDeg(k[2]))
        IN  IF INVERT_ROLL THEN -d ELSE d] @@ <<>>

PitchDeltaOf ==
    [k \in AxisDegs(PitchFrames) \X AxisCenters(PitchFrames, EEPROM_ADDR_PITCH) |->
        LET d == wrapDiffDeg(k[1], angle21ToDeg(k[2]))
        IN  IF INVERT_PITCH THEN -d ELSE d] @@ <<>>

\* the deltas a loop cycle computes from the degrees it resolved, against the
\* centers of the current state
CycleDeltas(rollDeg, pitchDeg) ==
    <<RollDeltaOf[<<rollDeg, U32Low21(rollCenter)>>],
      PitchDeltaOf[<<pitchDeg, U32Low21(pitchCenter)>>]>>

\* the centers, record and session the step has left
SessionReached ==
    Session(rollCenter, pitchCenter, eeprom, centersValid, recenterArmed,
            recenterStartMs, recenterDoneThisHold, recenterSafeTriedThisHold, event)'

(* C38: the angle21 and status3 of a reading whose crcOk is false influence *)
(* nothing.  roll and pitch are locals of loop() and setup(), so two runs   *)
(* that agree so far are in the same program state; from that state, a      *)
(* bootstrap poll or a loop cycle whose inputs differ only in the angle and *)
(* status bits of CRC-failed readings leaves the same centers, persisted    *)
(* record, recenter session and kept degrees and emits the same HID values. *)
(* By induction the two runs agree at every cycle.                          *)
C38_FailedReadingBitsIgnored ==
    [][/\ pc = "loop" =>
             /\ \A r2 \in Variants(roll') : ResolveDeg(r2, rollDegPrev) = rollDegPrev'
             /\ \A p2 \in Variants(pitch') : ResolveDeg(p2, pitchDegPrev) = pitchDegPrev'
             /\ \A d \in {CycleDeltas(rollDegPrev', pitchDegPrev')} :
                    \A r2 \in Variants(roll'), p2 \in Variants(pitch') :
                        Recenter(r2, p2, d[1], d[2], ComboNow', nowMs') = SessionReached
             /\ lastX' = MapRollToHID[<<rollDegPrev', U32Low21(rollCenter)>>]
             /\ lastY' = MapPitchToHID[<<pitchDegPrev', U32Low21(pitchCenter)>>]
             /\ lastHat' = computeHatFromTrim(Grip24Now')
       /\ (pc = "boot" /\ bootI' # bootI) =>
             /\ \A r2 \in Variants(roll'), p2 \in Variants(pitch') :
                    /\ BootCenter(rollCenter, r2) = rollCenter'
                    /\ BootCenter(pitchCenter, p2) = pitchCenter'
             /\ UNCHANGED <<eeprom, centersValid, recenterArmed, recenterStartMs,
                            recenterDoneThisHold, recenterSafeTriedThisHold,
                            rollDegPrev, pitchDegPrev, lastX, lastY, lastHat, lastGrip24>>
      ]_vars

\* a safe attempt whose roll reading failed its CRC while the last valid
\* degrees were within the bound: refused, the failed reading's angle (180
\* degrees) appearing nowhere
C38_Witness ==
    /\ event = "safe_refused" /\ ~roll.crc_ok /\ pitch.crc_ok
    /\ roll.angle21 = 1048576
    /\ PosErrWithin(rollDegPrev, rollCenter) /\ PosErrWithin(pitchDegPrev, pitchCenter)
    /\ rollCenter # U32(1048576) /\ rollDegPrev # angle21ToDeg(1048576)

-----------------------------------------------------------------------------
\* no loop cycle has run since setup returned
BeforeFirstCycle == pc = "loop" /\ event \in {"loaded", "boot_init"}

(* C39: at the end of every loop cycle the cache holds what the cycle       *)
(* computed and these are the values last sent at the HID boundary; the     *)
(* initial cache values (0x7FFF, 0x7FFF, -2, 0xFFFFFFFF) can never be       *)
(* computed, so the first cycle after boot emits both axes, all 19 buttons  *)
(* and the hat.                                                             *)
C39_Original ==
    [][BeforeFirstCycle =>
          /\ args'.setXAxis = <<lastX'>>
          /\ args'.setYAxis = <<lastY'>>
          /\ args'.setHatSwitch = <<lastHat'>>
          /\ DOMAIN args'.setButton = 0..18
          /\ lastX' # 32767 /\ lastY' # 32767 /\ lastHat' # -2
          /\ lastGrip24' # <<65535, 65535>>
      ]_vars

-----------------------------------------------------------------------------
\* the positions a needle can be sent to
NeedleTargets == 0..250

\* the step moves the needle by at most one position, toward the target it
\* found, and not at all when it was on the target
NeedleStep ==
    LET c == args.currentPosition
        d == args'.currentPosition
        t == args.targetPosition
    IN  /\ Abs(d - c) <= 1
        /\ d # c => Abs(t - d) < Abs(t - c)
        /\ c = t => d = c

(* C40: each setNeedle call changes currentPosition by at most one step and *)
(* only toward targetPosition, and not at all when they are equal; if       *)
(* targetPosition stays fixed, the repeated calls of loop() eventually      *)
(* bring currentPosition to targetPosition, where it stays; and every while *)
(* loop of startupTest terminates, so that setup() reaches its end.         *)
C40_NeedleStepsToTarget ==
    /\ [][(pc \in {"while", "loop_stepper"}) => NeedleStep]_vars
    /\ \A t \in NeedleTargets :
          <>[](pc = "loop_stepper" /\ args.targetPosition = t)
              => <>[](args.currentPosition = t)
    /\ <>(pc = "loop_stepper")

\* the E gauge's needle has followed a target of half scale and rests on it
C40_Witness ==
    /\ pc = "loop_stepper" /\ args.maxPosition = 250
    /\ args.targetPosition = 125 /\ args.currentPosition = 125

====
